---- MODULE Spec2Model ----
(***************************************************************************)
(* best_trade_logs: the in-memory trade repository, the trade service and  *)
(* the web handlers that sit on top of it.                                  *)
(*                                                                          *)
(* Go values are modelled with their sharing: a Trade struct is copied by   *)
(* value (cp := *tr), but its *ExitDetail, its *float64 fields and the      *)
(* backing arrays of its FollowUps and Tags slices are heap cells that the  *)
(* copy keeps pointing at.                                                  *)
(***************************************************************************)
EXTENDS Integers, Sequences, FiniteSets, TLC

\* ---------------------------------------------------------------- bounds
MaxClock == 2
MaxAlloc == 2
NumProcs == 2
MaxFollowUps == 2

\* ------------------------------------------------------------ basic values
Procs == 1..NumProcs
Addrs == 1..MaxAlloc

\* A nil pointer / nil slice, and the address Go gives zero-sized allocations.
NilPtr == 0
ZeroBase == -1

\* time.Time{}: CreatedAt.IsZero()
ZeroTime == 0

\* The empty identifier "" and the identifiers callers choose themselves.
EmptyID == <<>>
InputIDs == {EmptyID, <<1>>}

ErrNil == "nil"
ErrNotFound == "trade not found"
ErrValidation == "400"

SeqRange(s) == {s[i] : i \in 1..Len(s)}

\* ------------------------------------------------------------ domain types
\* ExitDetail (only the price is kept: every field is a plain value of the cell)
ZeroExit == [Price |-> 0]

\* FollowUp
FollowUp(days, price, logged) == [DaysAfter |-> days, Price |-> price, LoggedAt |-> logged]

ZeroFollowUp == FollowUp(0, 0, ZeroTime)

\* A slice header
Slice(arr, len, cap) == [arr |-> arr, len |-> len, cap |-> cap]

NilSlice == Slice(NilPtr, 0, 0)

\* Trade: the value fields are stood for by Instrument, the *float64 fields by
\* Entry.StopLoss, Review.Tags by Tags.
Trade(id, inst, created, updated, exit, stop, fus, tags) ==
    [ID |-> id, Instrument |-> inst, CreatedAt |-> created, UpdatedAt |-> updated,
     Exit |-> exit, StopLoss |-> stop, FollowUps |-> fus, Tags |-> tags]

\* ------------------------------------------------------------------ strings
\* A string is a sequence of characters.
IsSpace(c) == c = " "

ToLowerRuneStep(c) == IF c = "A" THEN "B" ELSE IF c = "B" THEN "b" ELSE c
ToLowerRune(c) == IF c = "A" THEN "a" ELSE IF c = "B" THEN "b" ELSE c

IsUpper(c) == c \in {"A", "B"}

ToLowerNothing(s) == s
ToLower(s) == [i \in 1..Len(s) |-> ToLowerRune(s[i])]

RECURSIVE TrimLeft(_)
TrimLeft(s) == IF s # <<>> /\ IsSpace(Head(s)) THEN TrimLeft(Tail(s)) ELSE s

RECURSIVE TrimRight(_)
TrimRight(s) ==
    IF s # <<>> /\ IsSpace(s[Len(s)]) THEN TrimRight(SubSeq(s, 1, Len(s) - 1)) ELSE s

TrimSpace(s) == TrimRight(TrimLeft(s))

\* The raw tags a caller hands to the service.
TagStrings == {<<" ">>, <<" ", "A">>, <<"a", " ">>}

TagLists == {<<>>} \cup {<<s>> : s \in TagStrings} \cup {<<s, t>> : s, t \in TagStrings}

\* normalize's loop: trim, drop the empty, lower-case; no de-duplication.
RECURSIVE dropEmptyLower(_)
dropEmptyLower(tags) ==
    IF tags = <<>> THEN <<>>
    ELSE LET tag == TrimSpace(Head(tags))
         IN  (IF tag # <<>> THEN <<ToLower(tag)>> ELSE <<>>) \o dropEmptyLower(Tail(tags))

cleanedTags(tags) == dropEmptyLower(tags)

\* A []string as normalize or buildTradeFromForm leaves it: nil or the tags.
NilTags == [nil |-> TRUE, tags |-> <<>>]
SomeTags(tags) == [nil |-> FALSE, tags |-> tags]

\* normalize: a nil tag list stays nil, any other is rebuilt.
normalize(in) == IF in.nil THEN NilTags ELSE SomeTags(cleanedTags(in.tags))

\* strings.Split(tags, ",")
RECURSIVE splitComma(_, _)
splitComma(s, cur) ==
    IF s = <<>> THEN <<cur>>
    ELSE IF Head(s) = "," THEN <<cur>> \o splitComma(Tail(s), <<>>)
         ELSE splitComma(Tail(s), Append(cur, Head(s)))

\* normalizeTag
normalizeTag(tag) == TrimSpace(ToLower(tag))

\* buildTradeFromForm, lines 705-715: skip the empty and the seen
RECURSIVE dedupe(_, _)
dedupe(parts, seen) ==
    IF parts = <<>> THEN <<>>
    ELSE LET normalized == normalizeTag(Head(parts))
         IN  IF normalized = <<>> \/ normalized \in seen
             THEN dedupe(Tail(parts), seen)
             ELSE <<normalized>> \o dedupe(Tail(parts), seen \cup {normalized})

\* buildTradeFromForm, lines 701-717: the tags field of the form
formTags(field) ==
    LET tags == TrimSpace(field)
        cleaned == dedupe(splitComma(tags, <<>>), {})
    IN  IF tags = <<>> \/ cleaned = <<>> THEN NilTags ELSE SomeTags(cleaned)

\* The tags fields requests post.
FormTagInputs == {<<>>, <<"a">>, <<"A", ",", "a">>, <<" ", "a", ",">>, <<",">>}

\* append: the capacity a full small slice grows to
GrowCap(cap) == IF cap = 0 THEN 1 ELSE 2 * cap

Pad(s, n, zero) == s \o [i \in 1..(n - Len(s)) |-> zero]

\* -------------------------------------------------------------------- state
VARIABLES
    clock,      \* what time.Now() returns
    trades,     \* InMemoryTradeRepository.trades: ID -> Trade struct
    exits,      \* heap of ExitDetail cells
    floats,     \* heap of float64 cells
    fuArrs,     \* heap of []FollowUp backing arrays (length = capacity)
    tagArrs,    \* heap of []string backing arrays
    pc,         \* each request's position
    loc,        \* each request's local variables while it runs
    ret,        \* the call that returned last: its error, the trade its caller
                \* is left holding and the listing it got
    deleted     \* identifiers deleted and not created again since

vars == <<clock, trades, exits, floats, fuArrs, tagArrs, pc, loc, ret, deleted>>

NoLocal ==
    [op |-> "none", id |-> EmptyID, tr |-> <<>>, fu |-> <<>>, stale |-> FALSE, gone |-> FALSE]

Ret(err, tr, list) == [err |-> err, tr |-> tr, list |-> list]

\* ------------------------------------------------------------------- heap
\* The structs that are reachable: the stored ones, the ones running requests
\* hold and the one the last caller holds.
Structs(tr, l, r) ==
    {tr[i] : i \in DOMAIN tr} \cup UNION {SeqRange(l[p].tr) : p \in Procs} \cup SeqRange(r.tr)

ExitRefs(S) == {t.Exit : t \in S} \ {NilPtr}
FloatRefs(S) == {t.StopLoss : t \in S} \ {NilPtr}
FuRefs(S) == {t.FollowUps.arr : t \in S} \ {NilPtr, ZeroBase}
TagRefs(S) == {t.Tags.arr : t \in S} \ {NilPtr, ZeroBase}

Live == Structs(trades, loc, ret)

\* Allocation takes the lowest cell nothing points at.
CanAlloc(used) == Addrs \ used # {}
Fresh(used) == CHOOSE a \in Addrs \ used : \A b \in Addrs \ used : a <= b

\* Cells nothing points at any more are reclaimed (zeroed).
Collect(ex, fl, fa, ta) ==
    LET S == Structs(trades', loc', ret')
    IN  /\ exits' = [a \in Addrs |-> IF a \in ExitRefs(S) THEN ex[a] ELSE ZeroExit]
        /\ floats' = [a \in Addrs |-> IF a \in FloatRefs(S) THEN fl[a] ELSE 0]
        /\ fuArrs' = [a \in Addrs |-> IF a \in FuRefs(S) THEN fa[a] ELSE <<>>]
        /\ tagArrs' = [a \in Addrs |-> IF a \in TagRefs(S) THEN ta[a] ELSE <<>>]

\* What a slice shows: the first len elements of its backing array.
FollowUpsOf(t, fa) ==
    IF t.FollowUps.len = 0 THEN <<>> ELSE SubSeq(fa[t.FollowUps.arr], 1, t.FollowUps.len)

TagsOf(t, ta) == IF t.Tags.len = 0 THEN <<>> ELSE SubSeq(ta[t.Tags.arr], 1, t.Tags.len)

\* A trade with everything it points at read out (an option is a sequence of
\* length at most one).
Deep(t, ex, fl, fa, ta) ==
    [ID |-> t.ID, Instrument |-> t.Instrument,
     CreatedAt |-> t.CreatedAt, UpdatedAt |-> t.UpdatedAt,
     Exit |-> IF t.Exit = NilPtr THEN <<>> ELSE <<ex[t.Exit]>>,
     StopLoss |-> IF t.StopLoss = NilPtr THEN <<>> ELSE <<fl[t.StopLoss]>>,
     FollowUps |-> FollowUpsOf(t, fa),
     TagsNil |-> t.Tags.arr = NilPtr,
     Tags |-> TagsOf(t, ta)]

DeepStore == [i \in DOMAIN trades |-> Deep(trades[i], exits, floats, fuArrs, tagArrs)]

DeepStoreNext == [i \in DOMAIN trades' |-> Deep(trades'[i], exits', floats', fuArrs', tagArrs')]

\* -------------------------------------------------------------- repository
\* generateID: the current time formatted to the nanosecond.
generateID(now) == <<now>>

\* time.Now().UTC(): the wall clock as it stands (Tick moves it between steps).
Nows == {clock}

\* r.trades[tr.ID] = &cp
PutAlone(m, t) == [i \in {t.ID} |-> t]
PutIfAbsent(m, t) == [i \in DOMAIN m \cup {t.ID} |-> IF i \in DOMAIN m THEN m[i] ELSE t]
Put(m, t) == [i \in DOMAIN m \cup {t.ID} |-> IF i = t.ID THEN t ELSE m[i]]

\* delete(r.trades, id)
RemoveNothing(m, id) == m
Remove(m, id) == [i \in DOMAIN m \ {id} |-> m[i]]

\* Create, lines 32-39: what the caller's trade becomes; the stored copy is
\* cp := *tr of it.
CreateStamp(tr, idNow, now) ==
    [tr EXCEPT !.ID = IF @ = EmptyID THEN generateID(idNow) ELSE @,
               !.CreatedAt = IF @ = ZeroTime THEN now ELSE @,
               !.UpdatedAt = now]

\* Update, lines 51-56
UpdateNotFoundOnlyEmpty(m, tr) == tr.ID = EmptyID
UpdateNotFound(m, tr) == tr.ID = EmptyID \/ tr.ID \notin DOMAIN m

\* Update, lines 57-59
UpdateCopyNoStamp(tr, now) == tr
UpdateCopy(tr, now) == [tr EXCEPT !.UpdatedAt = now]

\* Delete, line 68, and GetByID, line 81
Found(m, id) == id \in DOMAIN m

\* List, lines 93-100: the map is ranged over in no fixed order and sort.Slice
\* is not stable, so any order that is descending in CreatedAt can come out.
\* The result is kept as the identifiers in their order.
Orders(m) ==
    {s \in [1..Cardinality(DOMAIN m) -> DOMAIN m] :
        /\ \A i, j \in DOMAIN s : i # j => s[i] # s[j]
        /\ \A i, j \in DOMAIN s : i < j => m[s[i]].CreatedAt >= m[s[j]].CreatedAt}

\* ------------------------------------------------------------------ requests
Init ==
    /\ clock = 1
    /\ trades = <<>>
    /\ exits = [a \in Addrs |-> ZeroExit]
    /\ floats = [a \in Addrs |-> 0]
    /\ fuArrs = [a \in Addrs |-> <<>>]
    /\ tagArrs = [a \in Addrs |-> <<>>]
    /\ pc = [p \in Procs |-> "idle"]
    /\ loc = [p \in Procs |-> NoLocal]
    /\ ret = Ret(ErrNil, <<>>, <<>>)
    /\ deleted = {}

\* A request that read trade id and has not written it back yet now holds a
\* copy older than the store (a bookkeeping flag, not program state).
MarkStale(l, id) ==
    [q \in Procs |->
        IF pc[q] # "idle" /\ l[q].id = id /\ l[q].tr # <<>>
        THEN [l[q] EXCEPT !.stale = TRUE]
        ELSE l[q]]

\* A request that read trade id and has not written it back yet holds a copy
\* of a trade that was deleted since (bookkeeping as well).
MarkGone(l, id) ==
    [q \in Procs |->
        IF pc[q] # "idle" /\ l[q].id = id /\ l[q].tr # <<>>
        THEN [l[q] EXCEPT !.stale = TRUE, !.gone = TRUE]
        ELSE l[q]]

\* The request p (if it is one of the running requests) returns.
Finish(l, p) == [q \in Procs |-> IF q = p THEN NoLocal ELSE l[q]]

\* The deferred r.mu.Unlock() / r.mu.RUnlock() of the repository method p is
\* in: p is out of the method, and when p held the lock for writing the
\* readers that queued up behind it are let in together.
IdleKeepsLock(p) == pc
Idle(p) ==
    [q \in Procs |->
        IF q = p THEN "idle"
        ELSE IF p \in Procs /\ pc[p] = "w_held" /\ pc[q] = "r_wait" THEN "r_held"
        ELSE pc[q]]

\* Calls made from outside the running requests.
NoProc == NumProcs + 1

\* The identifiers requests ask for.
IDs == InputIDs \cup {generateID(t) : t \in 1..MaxClock}

\* What a caller puts into a trade it builds, &domain.Trade{...}: nothing
\* behind a pointer, or an exit, a stop-loss, one follow-up or one tag.
Kinds == {"bare", "exit", "stop", "followup", "tag"}

CanBuild(kind) ==
    /\ kind = "exit" => CanAlloc(ExitRefs(Live))
    /\ kind = "stop" => CanAlloc(FloatRefs(Live))
    /\ kind = "followup" => CanAlloc(FuRefs(Live))
    /\ kind = "tag" => CanAlloc(TagRefs(Live))

Build(id, created, kind) ==
    Trade(id, 1, created, ZeroTime,
          IF kind = "exit" THEN Fresh(ExitRefs(Live)) ELSE NilPtr,
          IF kind = "stop" THEN Fresh(FloatRefs(Live)) ELSE NilPtr,
          IF kind = "followup" THEN Slice(Fresh(FuRefs(Live)), 1, 1) ELSE NilSlice,
          IF kind = "tag" THEN Slice(Fresh(TagRefs(Live)), 1, 1) ELSE NilSlice)

BuiltExits(t, kind) == IF kind = "exit" THEN [exits EXCEPT ![t.Exit] = [Price |-> 1]] ELSE exits
BuiltFloats(t, kind) == IF kind = "stop" THEN [floats EXCEPT ![t.StopLoss] = 1] ELSE floats
BuiltFus(t, kind) ==
    IF kind = "followup"
    THEN [fuArrs EXCEPT ![t.FollowUps.arr] = <<FollowUp(7, 1, ZeroTime)>>]
    ELSE fuArrs
BuiltTags(t, tags) ==
    IF t.Tags.arr \in Addrs THEN [tagArrs EXCEPT ![t.Tags.arr] = tags] ELSE tagArrs

Held(keep, t) == IF keep THEN <<t>> ELSE <<>>

\* InMemoryTradeRepository.Create with tr, called by request p; keep says
\* whether the caller goes on holding tr afterwards.
RepoCreate(p, keep, tr, ex, fl, fa, ta) ==
    \E now \in Nows :
        LET t == CreateStamp(tr, clock, now)
        IN  /\ trades' = Put(trades, t)
            /\ clock' = now
            /\ loc' = Finish(MarkStale(loc, t.ID), p)
            /\ pc' = Idle(p)
            /\ ret' = Ret(ErrNil, Held(keep, t), <<>>)
            /\ deleted' = deleted \ {t.ID}
            /\ Collect(ex, fl, fa, ta)

\* InMemoryTradeRepository.Update with tr, called by request p
RepoUpdate(p, keep, tr, ex, fl, fa, ta) ==
    /\ IF UpdateNotFound(trades, tr)
       THEN /\ ret' = Ret(ErrNotFound, Held(keep, tr), <<>>)
            /\ UNCHANGED <<clock, trades>>
            /\ loc' = Finish(loc, p)
       ELSE \E now \in Nows :
            /\ trades' = Put(trades, UpdateCopy(tr, now))
            /\ clock' = now
            /\ loc' = Finish(MarkStale(loc, tr.ID), p)
            /\ ret' = Ret(ErrNil, Held(keep, tr), <<>>)
    /\ pc' = Idle(p)
    /\ UNCHANGED deleted
    /\ Collect(ex, fl, fa, ta)

\* InMemoryTradeRepository.Create, called with a trade the caller built.
Create(id, created, kind) ==
    /\ created \in {ZeroTime, clock}
    /\ CanBuild(kind)
    /\ LET t == Build(id, created, kind)
       IN  RepoCreate(NoProc, TRUE, t, BuiltExits(t, kind), BuiltFloats(t, kind),
                      BuiltFus(t, kind), BuiltTags(t, <<<<"a">>>>))

\* InMemoryTradeRepository.Update, called with the trade the last caller holds
\* (one it got from GetByID or List, or passed to Create or Update before).
UpdateHeld ==
    /\ ret.tr # <<>>
    /\ RepoUpdate(NoProc, TRUE, ret.tr[1], exits, floats, fuArrs, tagArrs)

\* InMemoryTradeRepository.Update, called with a trade the caller built.
UpdateBuilt(id, created) ==
    /\ created \in {ZeroTime, clock}
    /\ RepoUpdate(NoProc, TRUE, Build(id, created, "bare"), exits, floats, fuArrs, tagArrs)

\* InMemoryTradeRepository.Delete of id, called by request p
RepoDelete(p, id) ==
    /\ IF Found(trades, id)
       THEN /\ trades' = Remove(trades, id)
            /\ deleted' = deleted \cup {id}
            /\ loc' = Finish(MarkGone(loc, id), p)
            /\ ret' = Ret(ErrNil, <<>>, <<>>)
       ELSE /\ ret' = Ret(ErrNotFound, <<>>, <<>>)
            /\ loc' = Finish(loc, p)
            /\ UNCHANGED <<trades, deleted>>
    /\ pc' = Idle(p)
    /\ UNCHANGED clock
    /\ Collect(exits, floats, fuArrs, tagArrs)

\* InMemoryTradeRepository.GetByID of id, called by request p
RepoGetByID(p, id) ==
    /\ IF Found(trades, id)
       THEN ret' = Ret(ErrNil, <<trades[id]>>, <<>>)
       ELSE ret' = Ret(ErrNotFound, <<>>, <<>>)
    /\ loc' = Finish(loc, p)
    /\ pc' = Idle(p)
    /\ UNCHANGED <<clock, trades, deleted>>
    /\ Collect(exits, floats, fuArrs, tagArrs)

\* InMemoryTradeRepository.List, called by request p; the caller goes on with
\* one of the trades of the result.
RepoList(p) ==
    /\ \E s \in Orders(trades) :
        \E keep \in {<<>>} \cup {<<trades[i]>> : i \in DOMAIN trades} :
            /\ DOMAIN trades # {} => keep # <<>>
            /\ ret' = Ret(ErrNil, keep, s)
    /\ loc' = Finish(loc, p)
    /\ pc' = Idle(p)
    /\ UNCHANGED <<clock, trades, deleted>>
    /\ Collect(exits, floats, fuArrs, tagArrs)

\* InMemoryTradeRepository.Delete (Service.Delete only forwards to it).
Delete(id) == RepoDelete(NoProc, id)

\* InMemoryTradeRepository.GetByID (Service.Get only forwards to it).
GetByID(id) == RepoGetByID(NoProc, id)

\* InMemoryTradeRepository.List
List == RepoList(NoProc)

\* The caller writes to the trade it holds: to a field of the struct itself,
MutateField ==
    /\ ret.tr # <<>>
    /\ ret.tr[1].Instrument = 1
    /\ ret' = [ret EXCEPT !.tr[1].Instrument = 2]
    /\ UNCHANGED <<clock, trades, pc, loc, deleted>>
    /\ Collect(exits, floats, fuArrs, tagArrs)

\* or tr.Exit.Price = ...
MutateExit ==
    /\ ret.tr # <<>>
    /\ ret.tr[1].Exit # NilPtr
    /\ exits[ret.tr[1].Exit].Price = 1
    /\ UNCHANGED <<clock, trades, pc, loc, ret, deleted>>
    /\ Collect([exits EXCEPT ![ret.tr[1].Exit].Price = 2], floats, fuArrs, tagArrs)

\* or *tr.Entry.StopLoss = ...
MutateStopLoss ==
    /\ ret.tr # <<>>
    /\ ret.tr[1].StopLoss # NilPtr
    /\ floats[ret.tr[1].StopLoss] = 1
    /\ UNCHANGED <<clock, trades, pc, loc, ret, deleted>>
    /\ Collect(exits, [floats EXCEPT ![ret.tr[1].StopLoss] = 2], fuArrs, tagArrs)

\* or tr.FollowUps[0].Price = ...
MutateFollowUp ==
    /\ ret.tr # <<>>
    /\ ret.tr[1].FollowUps.len > 0
    /\ fuArrs[ret.tr[1].FollowUps.arr][1].Price = 1
    /\ UNCHANGED <<clock, trades, pc, loc, ret, deleted>>
    /\ Collect(exits, floats, [fuArrs EXCEPT ![ret.tr[1].FollowUps.arr][1].Price = 2], tagArrs)

\* or tr.Review.Tags[0] = ...
MutateTag ==
    /\ ret.tr # <<>>
    /\ ret.tr[1].Tags.len > 0
    /\ tagArrs[ret.tr[1].Tags.arr][1] # <<"B">>
    /\ UNCHANGED <<clock, trades, pc, loc, ret, deleted>>
    /\ Collect(exits, floats, fuArrs, [tagArrs EXCEPT ![ret.tr[1].Tags.arr][1] = <<"B">>])

\* Time passes.
Tick ==
    /\ clock < MaxClock
    /\ clock' = clock + 1
    /\ UNCHANGED <<trades, exits, floats, fuArrs, tagArrs, pc, loc, ret, deleted>>

\* ------------------------------------------------------- service and handlers
\* sort.SliceStable with less = CreatedAt.After: an insertion sort
RECURSIVE insertStable(_, _, _)
insertStable(s, x, m) ==
    IF s # <<>> /\ m[x].CreatedAt > m[s[Len(s)]].CreatedAt
    THEN insertStable(SubSeq(s, 1, Len(s) - 1), x, m) \o <<s[Len(s)]>>
    ELSE s \o <<x>>

RECURSIVE SliceStable(_, _)
SliceStable(s, m) ==
    IF s = <<>> THEN <<>>
    ELSE insertStable(SliceStable(SubSeq(s, 1, Len(s) - 1), m), s[Len(s)], m)

\* The tag slice normalize leaves in a trade: make([]string, 0, len(tags)) and
\* the appends to it.
TagSlice(norm, cap) ==
    IF norm.nil THEN NilSlice
    ELSE IF cap = 0 THEN Slice(ZeroBase, 0, 0)
    ELSE Slice(Fresh(TagRefs(Live)), Len(norm.tags), cap)

TagAllocOK(norm, cap) == (~norm.nil /\ cap > 0) => CanAlloc(TagRefs(Live))

TagHeap(norm, cap) ==
    IF ~norm.nil /\ cap > 0
    THEN [tagArrs EXCEPT ![Fresh(TagRefs(Live))] = Pad(norm.tags, cap, <<>>)]
    ELSE tagArrs

Local(op, id, tr, fu, stale) ==
    [op |-> op, id |-> id, tr |-> tr, fu |-> fu, stale |-> stale, gone |-> FALSE]

\* The tag lists callers of the service pass.
TagInputs == {NilTags} \cup {SomeTags(l) : l \in TagLists}

\* Service.Create, lines 36-38, with a trade the caller built
ServiceCreate(p, id, in) ==
    /\ pc[p] = "idle"
    /\ LET norm == normalize(in)
            cap == Len(in.tags)
            t == Trade(id, 1, clock, clock, NilPtr, NilPtr, NilSlice, TagSlice(norm, cap))
        IN  /\ TagAllocOK(norm, cap)
            /\ loc' = [loc EXCEPT ![p] = Local("Service.Create", id, <<t>>, <<>>, FALSE)]
            /\ pc' = [pc EXCEPT ![p] = "create_repo"]
            /\ UNCHANGED <<clock, trades, ret, deleted>>
            /\ Collect(exits, floats, fuArrs, TagHeap(norm, cap))

\* handleCreateTrade, lines 164-172, and Service.Create, lines 36-38
HandleCreateTrade(p, valid, field) ==
    /\ pc[p] = "idle"
    /\ LET built == formTags(field)
            norm == normalize(built)
            cap == Len(built.tags)
            t == Trade(EmptyID, 1, clock, clock, NilPtr, NilPtr, NilSlice, TagSlice(norm, cap))
        IN  IF valid
            THEN /\ TagAllocOK(norm, cap)
                 /\ loc' = [loc EXCEPT ![p] = Local("handleCreateTrade", EmptyID, <<t>>, <<>>, FALSE)]
                 /\ pc' = [pc EXCEPT ![p] = "create_repo"]
                 /\ UNCHANGED <<clock, trades, ret, deleted>>
                 /\ Collect(exits, floats, fuArrs, TagHeap(norm, cap))
            ELSE /\ ret' = Ret(ErrValidation, <<>>, <<>>)
                 /\ UNCHANGED <<clock, trades, pc, loc, deleted>>
                 /\ Collect(exits, floats, fuArrs, tagArrs)

\* Only the callers of Service.Create and Service.Update hold the trade after
\* the call; the handlers' and AddFollowUp's trade is a local.
CallerKeeps(op) == op \in {"Service.Create", "Service.Update"}

\* Service.Create, line 39
CreateRepo(p) ==
    /\ pc[p] = "create_repo"
    /\ RepoCreate(p, CallerKeeps(loc[p].op), loc[p].tr[1], exits, floats, fuArrs, tagArrs)

\* The CreatedAt a caller of Service.Update passes: the one it read before, or
\* none.
CreatedInputs(id) == {ZeroTime} \cup (IF Found(trades, id) THEN {trades[id].CreatedAt} ELSE {})

\* Service.Update, lines 44-45, with a trade the caller built
ServiceUpdate(p, id, created, in) ==
    /\ pc[p] = "idle"
    /\ created \in CreatedInputs(id)
    /\ LET norm == normalize(in)
           cap == Len(in.tags)
           t == Trade(id, 2, created, clock, NilPtr, NilPtr, NilSlice, TagSlice(norm, cap))
       IN  /\ TagAllocOK(norm, cap)
           /\ loc' = [loc EXCEPT ![p] = Local("Service.Update", id, <<t>>, <<>>, FALSE)]
           /\ pc' = [pc EXCEPT ![p] = "update_repo"]
           /\ UNCHANGED <<clock, trades, ret, deleted>>
           /\ Collect(exits, floats, fuArrs, TagHeap(norm, cap))

\* Service.Update, line 46, and Service.AddFollowUp, line 81
UpdateRepo(p) ==
    /\ pc[p] = "update_repo"
    /\ RepoUpdate(p, CallerKeeps(loc[p].op), loc[p].tr[1], exits, floats, fuArrs, tagArrs)

\* Service.AddFollowUp, lines 73-76: request p logs the price p; logged is the
\* LoggedAt the caller put into the follow-up
AddFollowUp(p, id, logged) ==
    /\ pc[p] = "idle"
    /\ IF Found(trades, id)
       THEN /\ trades[id].FollowUps.len < MaxFollowUps
            /\ loc' = [loc EXCEPT ![p] = Local("AddFollowUp", id, <<trades[id]>>,
                                               <<FollowUp(7, p, logged)>>, FALSE)]
            /\ pc' = [pc EXCEPT ![p] = "af_append"]
            /\ UNCHANGED ret
       ELSE /\ ret' = Ret(ErrNotFound, <<>>, <<>>)
            /\ UNCHANGED <<pc, loc>>
    /\ UNCHANGED <<clock, trades, deleted>>
    /\ Collect(exits, floats, fuArrs, tagArrs)

\* Service.AddFollowUp, line 77: followUp.LoggedAt = time.Now().UTC()
StampKeep(fu, now) == fu
Stamp(fu, now) == [fu EXCEPT !.LoggedAt = now]

\* Service.AddFollowUp, lines 77-80: stamp, append, normalize
AfAppend(p) ==
    /\ pc[p] = "af_append"
    /\ LET tr == loc[p].tr[1]
           fu == Stamp(loc[p].fu[1], clock)
           s == tr.FollowUps
           inPlace == s.len < s.cap
           cap == GrowCap(s.cap)
           fa == IF inPlace THEN s.arr ELSE Fresh(FuRefs(Live))
           in == IF tr.Tags.arr = NilPtr THEN NilTags ELSE SomeTags(TagsOf(tr, tagArrs))
           norm == normalize(in)
           tcap == tr.Tags.len
           t == [tr EXCEPT !.FollowUps = Slice(fa, s.len + 1, IF inPlace THEN s.cap ELSE cap),
                           !.UpdatedAt = fu.LoggedAt,
                           !.Tags = TagSlice(norm, tcap)]
       IN  /\ ~inPlace => CanAlloc(FuRefs(Live))
           /\ TagAllocOK(norm, tcap)
           /\ loc' = [loc EXCEPT ![p] = [Local("AddFollowUp", loc[p].id, <<t>>, <<fu>>, loc[p].stale)
                                            EXCEPT !.gone = loc[p].gone]]
           /\ pc' = [pc EXCEPT ![p] = "update_repo"]
           /\ UNCHANGED <<clock, trades, ret, deleted>>
           /\ Collect(exits, floats,
                      IF inPlace
                      THEN [fuArrs EXCEPT ![fa][s.len + 1] = fu]
                      ELSE [fuArrs EXCEPT ![fa] = Pad(FollowUpsOf(tr, fuArrs) \o <<fu>>,
                                                      cap, ZeroFollowUp)],
                      TagHeap(norm, tcap))

\* handleUpdateTrade, lines 229-237
HandleUpdateTrade(p, id) ==
    /\ pc[p] = "idle"
    /\ IF Found(trades, id)
       THEN /\ loc' = [loc EXCEPT ![p] = Local("handleUpdateTrade", id, <<trades[id]>>, <<>>, FALSE)]
            /\ pc' = [pc EXCEPT ![p] = "hu_build"]
            /\ UNCHANGED ret
       ELSE /\ ret' = Ret(ErrNotFound, <<>>, <<>>)
            /\ UNCHANGED <<pc, loc>>
    /\ UNCHANGED <<clock, trades, deleted>>
    /\ Collect(exits, floats, fuArrs, tagArrs)

\* handleUpdateTrade, line 249: tr.FollowUps = existing.FollowUps
DropFollowUps(existing) == NilSlice
KeepFollowUps(existing) == existing.FollowUps

\* handleUpdateTrade, lines 238-249, and Service.Update, lines 44-45 (the
\* form is valid or not, and has a tags field)
HuBuild(p, valid, field) ==
    /\ pc[p] = "hu_build"
    /\ LET existing == loc[p].tr[1]
            built == formTags(field)
            norm == normalize(built)
            cap == Len(built.tags)
            t == Trade(existing.ID, 2, existing.CreatedAt, clock, NilPtr, NilPtr,
                       KeepFollowUps(existing), TagSlice(norm, cap))
        IN  IF valid
            THEN /\ TagAllocOK(norm, cap)
                 /\ loc' = [loc EXCEPT ![p] = [Local("handleUpdateTrade", loc[p].id, <<t>>, <<>>,
                                                     loc[p].stale)
                                                  EXCEPT !.gone = loc[p].gone]]
                 /\ pc' = [pc EXCEPT ![p] = "update_repo"]
                 /\ UNCHANGED <<clock, trades, ret, deleted>>
                 /\ Collect(exits, floats, fuArrs, TagHeap(norm, cap))
            ELSE /\ ret' = Ret(ErrValidation, <<>>, <<>>)
                 /\ loc' = Finish(loc, p)
                 /\ pc' = Idle(p)
                 /\ UNCHANGED <<clock, trades, deleted>>
                 /\ Collect(exits, floats, fuArrs, tagArrs)

\* Service.List: the repository's List, then the stable sort
ServiceList ==
    /\ \E s \in Orders(trades) :
        ret' = Ret(ErrNil, <<>>, SliceStable(s, trades))
    /\ UNCHANGED <<clock, trades, pc, loc, deleted>>
    /\ Collect(exits, floats, fuArrs, tagArrs)

Times == 0..MaxClock

\* A single client: it waits for a call to return before it makes the next.
OneAtATime == \A q \in Procs : pc[q] = "idle"

\* The service called by a single client, with trades without tags.
NextService ==
    \/ \E p \in Procs, id \in InputIDs : OneAtATime /\ ServiceCreate(p, id, NilTags)
    \/ \E p \in Procs : CreateRepo(p)
    \/ \E p \in Procs, id \in IDs, created \in Times :
            OneAtATime /\ ServiceUpdate(p, id, created, NilTags)
    \/ \E p \in Procs : UpdateRepo(p)
    \/ \E p \in Procs, id \in IDs, logged \in Times : OneAtATime /\ AddFollowUp(p, id, logged)
    \/ \E p \in Procs : AfAppend(p)
    \/ \E id \in IDs : OneAtATime /\ Delete(id)
    \/ OneAtATime /\ ServiceList
    \/ Tick

SpecService == Init /\ [][NextService]_vars

\* Concurrent requests on the trade <<1>>, without tags.
NextRequests ==
    \/ \E p \in Procs : ServiceCreate(p, <<1>>, NilTags)
    \/ \E p \in Procs : CreateRepo(p)
    \/ \E p \in Procs : UpdateRepo(p)
    \/ \E p \in Procs, id \in IDs : AddFollowUp(p, id, ZeroTime)
    \/ \E p \in Procs : AfAppend(p)
    \/ \E p \in Procs, id \in IDs : HandleUpdateTrade(p, id)
    \/ \E p \in Procs, valid \in BOOLEAN : HuBuild(p, valid, <<>>)
    \/ \E id \in IDs : Delete(id)
    \/ Tick

SpecRequests == Init /\ [][NextRequests]_vars

\* A single client and tags; normalize does not read the clock, which stands
\* still here.
NextTags ==
    \/ \E p \in Procs, in \in TagInputs : OneAtATime /\ ServiceCreate(p, <<1>>, in)
    \/ \E p \in Procs, valid \in BOOLEAN, field \in FormTagInputs :
            OneAtATime /\ HandleCreateTrade(p, valid, field)
    \/ \E p \in Procs : CreateRepo(p)
    \/ \E p \in Procs, id \in IDs, created \in Times, in \in TagInputs :
            OneAtATime /\ ServiceUpdate(p, id, created, in)
    \/ \E p \in Procs : UpdateRepo(p)
    \/ \E p \in Procs, id \in IDs : OneAtATime /\ AddFollowUp(p, id, ZeroTime)
    \/ \E p \in Procs : AfAppend(p)
    \/ \E p \in Procs, id \in IDs : OneAtATime /\ HandleUpdateTrade(p, id)
    \/ \E p \in Procs, valid \in BOOLEAN, field \in FormTagInputs : HuBuild(p, valid, field)

SpecTags == Init /\ [][NextTags]_vars

\* Callers that use the repository directly and keep what they get.
NextRepo ==
    \/ \E id \in InputIDs, created \in Times, kind \in Kinds : Create(id, created, kind)
    \/ UpdateHeld
    \/ \E id \in IDs, created \in Times : UpdateBuilt(id, created)
    \/ \E id \in IDs : Delete(id)
    \/ \E id \in IDs : GetByID(id)
    \/ List
    \/ MutateField
    \/ MutateExit
    \/ MutateStopLoss
    \/ MutateFollowUp
    \/ MutateTag
    \/ Tick

SpecRepo == Init /\ [][NextRepo]_vars

\* ------------------------------------------------------------ the lock
\* The repository's sync.RWMutex, r.mu.  A method that has called Lock or
\* RLock is at one of these places:
\*   "w_wait"   in Lock, behind another writer
\*   "w_drain"  in Lock, next to write, waiting for the readers that are in
\*   "w_held"   holds the lock for writing
\*   "r_wait"   in RLock, behind a writer that is next to write or writing
\*   "r_held"   holds the lock for reading
Writing == {"w_drain", "w_held"}

WriteOps == {"Create", "Update", "Delete"}
ReadOps == {"GetByID", "List"}

Called(p, op, id) == [loc EXCEPT ![p] = [NoLocal EXCEPT !.op = op, !.id = id]]

\* r.mu.Lock() at the top of Create, Update and Delete: the call is made.
Lock(p, op, id) ==
    /\ pc[p] = "idle"
    /\ op \in WriteOps
    /\ pc' = [pc EXCEPT ![p] = "w_wait"]
    /\ loc' = Called(p, op, id)
    /\ UNCHANGED <<clock, trades, exits, floats, fuArrs, tagArrs, ret, deleted>>

\* Lock goes on once no other writer is ahead: readers arriving from now on
\* wait, and the writer waits for the readers that are in.
LockAcquire(p) ==
    /\ pc[p] = "w_wait"
    /\ \A q \in Procs : pc[q] \notin Writing
    /\ pc' = [pc EXCEPT ![p] = IF \E q \in Procs : pc[q] = "r_held"
                                THEN "w_drain" ELSE "w_held"]
    /\ UNCHANGED <<clock, trades, exits, floats, fuArrs, tagArrs, loc, ret, deleted>>

\* Lock returns when the last of those readers has left.
LockDrained(p) ==
    /\ pc[p] = "w_drain"
    /\ \A q \in Procs : pc[q] # "r_held"
    /\ pc' = [pc EXCEPT ![p] = "w_held"]
    /\ UNCHANGED <<clock, trades, exits, floats, fuArrs, tagArrs, loc, ret, deleted>>

\* r.mu.RLock() at the top of GetByID and List: it returns at once unless a
\* writer is next to write or writing.
RLock(p, op, id) ==
    /\ pc[p] = "idle"
    /\ op \in ReadOps
    /\ pc' = [pc EXCEPT ![p] = IF \E q \in Procs : pc[q] \in Writing
                                THEN "r_wait" ELSE "r_held"]
    /\ loc' = Called(p, op, id)
    /\ UNCHANGED <<clock, trades, exits, floats, fuArrs, tagArrs, ret, deleted>>

\* The rest of each method, run with the lock held, up to its return and the
\* deferred unlock.
LockedCreate(p) ==
    /\ pc[p] = "w_held"
    /\ loc[p].op = "Create"
    /\ RepoCreate(p, FALSE, Build(loc[p].id, ZeroTime, "bare"), exits, floats, fuArrs, tagArrs)

LockedUpdate(p) ==
    /\ pc[p] = "w_held"
    /\ loc[p].op = "Update"
    /\ RepoUpdate(p, FALSE, Build(loc[p].id, ZeroTime, "bare"), exits, floats, fuArrs, tagArrs)

LockedDelete(p) ==
    /\ pc[p] = "w_held"
    /\ loc[p].op = "Delete"
    /\ RepoDelete(p, loc[p].id)

LockedGetByID(p) ==
    /\ pc[p] = "r_held"
    /\ loc[p].op = "GetByID"
    /\ RepoGetByID(p, loc[p].id)

LockedList(p) ==
    /\ pc[p] = "r_held"
    /\ loc[p].op = "List"
    /\ RepoList(p)

Locked(p) ==
    LockedCreate(p) \/ LockedUpdate(p) \/ LockedDelete(p) \/ LockedGetByID(p) \/ LockedList(p)

\* Any number of callers of the repository's five methods, on the in-memory
\* repository alone.
NextLock ==
    \/ \E p \in Procs, op \in WriteOps, id \in InputIDs : Lock(p, op, id)
    \/ \E p \in Procs : LockAcquire(p)
    \/ \E p \in Procs : LockDrained(p)
    \/ \E p \in Procs, op \in ReadOps, id \in InputIDs : RLock(p, op, id)
    \/ \E p \in Procs : LockedCreate(p)
    \/ \E p \in Procs : LockedUpdate(p)
    \/ \E p \in Procs : LockedDelete(p)
    \/ \E p \in Procs : LockedGetByID(p)
    \/ \E p \in Procs : LockedList(p)

\* Scheduling: a goroutine that can run does run (weak fairness of every step
\* a method takes by itself), and sync.Mutex hands the lock to a writer that
\* has been waiting rather than letting newcomers overtake it forever (strong
\* fairness of LockAcquire).  Callers are free never to call.
FairLock ==
    \A p \in Procs :
        /\ SF_vars(LockAcquire(p))
        /\ WF_vars(LockDrained(p))
        /\ WF_vars(Locked(p))

SpecLock == Init /\ [][NextLock]_vars /\ FairLock

\* ------------------------------------------------------------------ web
\* The status a handler answers with: ok when the service returned no error,
\* 404 when errors.Is(err, storage.ErrNotFound), 500 for any other error; 400
\* is what the handlers answer themselves for a form they reject.
AnswerNoNotFound(err, ok) ==
    IF err = ErrNil THEN ok ELSE IF err = ErrValidation THEN "400" ELSE "500"
Answer(err, ok) ==
    IF err = ErrNil THEN ok
    ELSE IF err = ErrValidation THEN "400"
    ELSE IF err = ErrNotFound THEN "404"
    ELSE "500"

\* handleTradeRoutes, lines 142-146: a path without identifier reaches no
\* handler.
RoutedIDs == IDs \ {EmptyID}

\* handleShowTrade: svc.Get, then the page is rendered
HandleShowTrade(id) ==
    /\ ret' = Ret(IF Found(trades, id) THEN ErrNil ELSE ErrNotFound, <<>>, <<>>)
    /\ UNCHANGED <<clock, trades, pc, loc, deleted>>
    /\ Collect(exits, floats, fuArrs, tagArrs)

\* handleEditTrade: svc.Get, then the form is rendered
HandleEditTrade(id) ==
    /\ ret' = Ret(IF Found(trades, id) THEN ErrNil ELSE ErrNotFound, <<>>, <<>>)
    /\ UNCHANGED <<clock, trades, pc, loc, deleted>>
    /\ Collect(exits, floats, fuArrs, tagArrs)

\* handleDeleteTrade: svc.Delete
HandleDeleteTrade(id) ==
    /\ id \in RoutedIDs
    /\ Delete(id)

\* handleAddFollowUp, lines 274-298: the form is parsed (it is valid or not)
\* before svc.AddFollowUp is called.
HandleAddFollowUp(p, id, valid) ==
    /\ pc[p] = "idle"
    /\ IF valid
       THEN AddFollowUp(p, id, ZeroTime)
       ELSE /\ ret' = Ret(ErrValidation, <<>>, <<>>)
            /\ UNCHANGED <<clock, trades, pc, loc, deleted>>
            /\ Collect(exits, floats, fuArrs, tagArrs)

\* Two requests at a time, each to any of the routes, within one reading of
\* the clock.
NextWeb ==
    \/ \E p \in Procs, valid \in BOOLEAN : HandleCreateTrade(p, valid, <<>>)
    \/ \E p \in Procs : CreateRepo(p)
    \/ \E id \in RoutedIDs : HandleShowTrade(id)
    \/ \E id \in RoutedIDs : HandleEditTrade(id)
    \/ \E p \in Procs, id \in RoutedIDs : HandleUpdateTrade(p, id)
    \/ \E p \in Procs, valid \in BOOLEAN : HuBuild(p, valid, <<>>)
    \/ \E p \in Procs : UpdateRepo(p)
    \/ \E id \in RoutedIDs : HandleDeleteTrade(id)
    \/ \E p \in Procs, id \in RoutedIDs, valid \in BOOLEAN : HandleAddFollowUp(p, id, valid)
    \/ \E p \in Procs : AfAppend(p)

SpecWeb == Init /\ [][NextWeb]_vars

\* ----------------------------------------------------------------- seed
\* t.AddDate(0, 0, days), the clock counting days
AddDate(t, days) == t + days

\* sampleTrades, line 42
exit1Date(now) == AddDate(now, -5)

\* sampleTrades: two trades without identifier and CreatedAt, the first with
\* an exit and two follow-ups logged 7 and 30 days after the exit, the second
\* with a stop-loss (their tags are left out: both arrays and their
\* normalized copies do not fit the heap of MaxAlloc cells).
sampleTrades ==
    <<[Build(EmptyID, ZeroTime, "exit") EXCEPT !.FollowUps = Slice(Fresh(FuRefs(Live)), 2, 2)],
      [Build(EmptyID, ZeroTime, "stop") EXCEPT !.Instrument = 2]>>

sampleFollowUps(now) ==
    <<FollowUp(7, 1, AddDate(exit1Date(now), 7)), FollowUp(30, 1, AddDate(exit1Date(now), 30))>>

\* maybeSeed, lines 14-27: nothing to do unless seeding is enabled and
\* svc.List returns no trade; then the samples are built.
MaybeSeed(p, enabled) ==
    /\ pc[p] = "idle"
    /\ UNCHANGED <<clock, trades, deleted>>
    /\ IF ~enabled \/ DOMAIN trades # {}
       THEN /\ ret' = Ret(ErrNil, <<>>, <<>>)
            /\ UNCHANGED <<pc, loc>>
            /\ Collect(exits, floats, fuArrs, tagArrs)
       ELSE /\ CanBuild("exit")
            /\ CanBuild("stop")
            /\ CanBuild("followup")
            /\ pc' = [pc EXCEPT ![p] = "seed_first"]
            /\ loc' = [loc EXCEPT ![p] = Local("maybeSeed", EmptyID, sampleTrades, <<>>, FALSE)]
            /\ UNCHANGED ret
            /\ Collect(BuiltExits(sampleTrades[1], "exit"), BuiltFloats(sampleTrades[2], "stop"),
                       [fuArrs EXCEPT ![sampleTrades[1].FollowUps.arr] = sampleFollowUps(clock)],
                       tagArrs)

\* maybeSeed, lines 28-32: svc.Create of the i-th sample, which is
\* InMemoryTradeRepository.Create of it (memory.go 32-42).
SeedCreate(p, i) ==
    \E now \in Nows :
        LET t == CreateStamp(loc[p].tr[i], clock, now)
        IN  /\ trades' = Put(trades, t)
            /\ clock' = now
            /\ deleted' = deleted \ {t.ID}
            /\ IF i < Len(loc[p].tr)
               THEN /\ loc' = [loc EXCEPT ![p].tr[i] = t]
                    /\ pc' = [pc EXCEPT ![p] = "seed_second"]
                    /\ UNCHANGED ret
               ELSE /\ loc' = Finish(loc, p)
                    /\ pc' = Idle(p)
                    /\ ret' = Ret(ErrNil, <<>>, <<>>)
            /\ Collect(exits, floats, fuArrs, tagArrs)

SeedFirst(p) ==
    /\ pc[p] = "seed_first"
    /\ SeedCreate(p, 1)

SeedSecond(p) ==
    /\ pc[p] = "seed_second"
    /\ SeedCreate(p, 2)

\* The server starts, perhaps on a store that holds trades already, and
\* seeds; trades are created and deleted before and after, not meanwhile.
NextSeed ==
    \/ \E id \in InputIDs, created \in Times : OneAtATime /\ Create(id, created, "bare")
    \/ \E id \in IDs : OneAtATime /\ Delete(id)
    \/ \E id \in IDs : OneAtATime /\ GetByID(id)
    \/ \E p \in Procs, enabled \in BOOLEAN : OneAtATime /\ MaybeSeed(p, enabled)
    \/ \E p \in Procs : SeedFirst(p)
    \/ \E p \in Procs : SeedSecond(p)
    \/ Tick

SpecSeed == Init /\ [][NextSeed]_vars

\* ------------------------------------------------------------ normalize
\* normalize applied again and again to the tags of one trade: ret.tr is the
\* tag list as it is now, ret.list the lists it was before each application.
MaxTags == 3

RawTags == TagStrings \cup {<<>>, <<"A", " ", "B">>, <<" ", "b", " ">>}

RawTagLists == UNION {[1..n -> RawTags] : n \in 0..MaxTags}

InitNormalize ==
    /\ clock = 1
    /\ trades = <<>>
    /\ exits = [a \in Addrs |-> ZeroExit]
    /\ floats = [a \in Addrs |-> 0]
    /\ fuArrs = [a \in Addrs |-> <<>>]
    /\ tagArrs = [a \in Addrs |-> <<>>]
    /\ pc = [p \in Procs |-> "idle"]
    /\ loc = [p \in Procs |-> NoLocal]
    /\ \E in \in {NilTags} \cup {SomeTags(l) : l \in RawTagLists} :
            ret = Ret(ErrNil, <<in>>, <<>>)
    /\ deleted = {}

Normalize ==
    /\ Len(ret.list) < 2
    /\ ret' = [ret EXCEPT !.tr = <<normalize(ret.tr[1])>>,
                          !.list = Append(ret.list, ret.tr[1])]
    /\ UNCHANGED <<clock, trades, exits, floats, fuArrs, tagArrs, pc, loc, deleted>>

NextNormalize == Normalize

SpecNormalize == InitNormalize /\ [][NextNormalize]_vars

\* ---------------------------------------------------------------- metrics
\* float64 values are kept as fractions in lowest terms with a positive
\* denominator, so that equal numbers are equal records.  A division by zero
\* gives no finite number (Go gives an infinity or a NaN, and does not panic);
\* it is kept as NotFinite, and so is everything computed from it.
MaxPrice == 3

RECURSIVE GCD(_, _)
GCD(a, b) == IF b = 0 THEN a ELSE GCD(b, a % b)

AbsInt(n) == IF n < 0 THEN -n ELSE n

NotFinite == [num |-> 0, den |-> 0]

Float(n, d) ==
    IF d = 0 THEN NotFinite
    ELSE LET g == GCD(AbsInt(n), AbsInt(d))
             sgn == IF d < 0 THEN -1 ELSE 1
         IN  [num |-> sgn * (n \div g), den |-> sgn * (d \div g)]

\* float64(NaN), which strconv.ParseFloat returns for the form value "NaN":
\* written as an integer that no other number of the model takes.
NaN == -1000

F(n) == IF n = NaN THEN NotFinite ELSE Float(n, 1)
Zero == F(0)
Finite(x) == x.den # 0

Add(x, y) ==
    IF Finite(x) /\ Finite(y) THEN Float(x.num * y.den + y.num * x.den, x.den * y.den)
    ELSE NotFinite
Neg(x) == [x EXCEPT !.num = -@]
Sub(x, y) == Add(x, Neg(y))
Mul(x, y) ==
    IF Finite(x) /\ Finite(y) THEN Float(x.num * y.num, x.den * y.den) ELSE NotFinite
Div(x, y) ==
    IF Finite(x) /\ Finite(y) THEN Float(x.num * y.den, x.den * y.num) ELSE NotFinite
MathAbs(x) == [x EXCEPT !.num = AbsInt(@)]

DirectionLong == "LONG"
DirectionShort == "SHORT"

\* A Trade as the metrics get it (their receiver is a Trade by value): the
\* fields they read, with what is behind a pointer as a sequence that is
\* empty for nil.
EntryDetail(price, quantity, fees, stop, target, rps) ==
    [Price |-> price, Quantity |-> quantity, Fees |-> fees,
     StopLoss |-> stop, Target |-> target, RiskPerShare |-> rps]

ExitDetail(price, fees) == [Price |-> price, Fees |-> fees]

\* The zero value of Direction is a third direction.
Directions == {DirectionLong, DirectionShort, ""}

Entries ==
    {EntryDetail(price, quantity, fees, stop, target, rps) :
        price \in {0, MaxPrice}, quantity \in {0, 2}, fees \in {0, 1},
        stop \in {<<>>, <<1>>, <<MaxPrice>>}, target \in {<<>>, <<MaxPrice + 1>>},
        rps \in {<<>>, <<0>>, <<1>>}}

Exits == {<<>>, <<ExitDetail(0, 1)>>, <<ExitDetail(2, 1)>>}

Histories ==
    {<<>>,
     <<FollowUp(7, MaxPrice, ZeroTime), FollowUp(7, 1, ZeroTime)>>,
     <<FollowUp(1, 1, ZeroTime), FollowUp(7, MaxPrice, ZeroTime)>>}

MetricTrades ==
    {[Direction |-> d, Entry |-> e, Exit |-> x, FollowUps |-> h] :
        d \in Directions, e \in Entries, x \in Exits, h \in Histories}

\* The arguments the metrics are called with.
Offsets == {1, 7}
ClosePrices == {0, 2}

GrossExposure(t) == MathAbs(Mul(F(t.Entry.Price), F(t.Entry.Quantity)))

RiskPerShareStopFirst(t) ==
    IF t.Entry.StopLoss # <<>>
    THEN IF t.Direction = DirectionLong
         THEN Sub(F(t.Entry.Price), F(t.Entry.StopLoss[1]))
         ELSE Sub(F(t.Entry.StopLoss[1]), F(t.Entry.Price))
    ELSE IF t.Entry.RiskPerShare # <<>> THEN F(t.Entry.RiskPerShare[1])
    ELSE Zero

RiskPerShare(t) ==
    IF t.Entry.RiskPerShare # <<>> THEN F(t.Entry.RiskPerShare[1])
    ELSE IF t.Entry.StopLoss = <<>> THEN Zero
    ELSE IF t.Direction = DirectionLong
         THEN Sub(F(t.Entry.Price), F(t.Entry.StopLoss[1]))
         ELSE Sub(F(t.Entry.StopLoss[1]), F(t.Entry.Price))

TotalRiskAmount(t) == Mul(RiskPerShare(t), F(t.Entry.Quantity))

HasExited(t) == t.Exit # <<>>

GrossResultLongOnly(t) ==
    IF t.Exit = <<>> THEN Zero
    ELSE Mul(Sub(F(t.Exit[1].Price), F(t.Entry.Price)), F(t.Entry.Quantity))

GrossResultUnlessLong(t) ==
    IF t.Exit = <<>> THEN Zero
    ELSE IF t.Direction = DirectionLong
         THEN Mul(Sub(F(t.Exit[1].Price), F(t.Entry.Price)), F(t.Entry.Quantity))
         ELSE Mul(Sub(F(t.Entry.Price), F(t.Exit[1].Price)), F(t.Entry.Quantity))

GrossResult(t) ==
    IF t.Exit = <<>> THEN Zero
    ELSE IF t.Direction = DirectionShort
         THEN Mul(Sub(F(t.Entry.Price), F(t.Exit[1].Price)), F(t.Entry.Quantity))
         ELSE Mul(Sub(F(t.Exit[1].Price), F(t.Entry.Price)), F(t.Entry.Quantity))

NetResultNoExitFees(t) ==
    IF t.Exit = <<>> THEN Neg(F(t.Entry.Fees))
    ELSE Sub(GrossResult(t), F(t.Entry.Fees))

NetResult(t) ==
    IF t.Exit = <<>> THEN Neg(F(t.Entry.Fees))
    ELSE Sub(Sub(GrossResult(t), F(t.Entry.Fees)), F(t.Exit[1].Fees))

ResultPercentUnguarded(t) == Mul(Div(NetResult(t), GrossExposure(t)), F(100))

ResultPercent(t) ==
    LET exposure == GrossExposure(t)
    IN  IF exposure = Zero THEN Zero
        ELSE Mul(Div(NetResult(t), exposure), F(100))

RMultipleGross(t) ==
    LET risk == TotalRiskAmount(t)
    IN  IF risk = Zero THEN Zero ELSE Div(GrossResult(t), risk)

RMultiple(t) ==
    LET risk == TotalRiskAmount(t)
    IN  IF risk = Zero THEN Zero ELSE Div(NetResult(t), risk)

\* What a metric returns: a number, and for FollowUpChangePercent whether a
\* follow-up was found.
Out(value, found) == [value |-> value, found |-> found]

\* FollowUpChangePercent, lines 162-166
change(t, f) ==
    IF t.Direction = DirectionShort
    THEN Mul(Div(Sub(F(t.Exit[1].Price), F(f.Price)), F(t.Exit[1].Price)), F(100))
    ELSE Mul(Div(Sub(F(f.Price), F(t.Exit[1].Price)), F(t.Exit[1].Price)), F(100))

\* FollowUpChangePercent, lines 159-171: the loop, from the i-th follow-up on
RECURSIVE rangeFollowUpsLast(_, _, _)
rangeFollowUpsLast(t, daysAfter, i) ==
    IF i > Len(t.FollowUps) THEN Out(Zero, FALSE)
    ELSE LET rest == rangeFollowUpsLast(t, daysAfter, i + 1)
         IN  IF rest.found \/ t.FollowUps[i].DaysAfter # daysAfter THEN rest
             ELSE IF t.Exit[1].Price = 0 THEN Out(Zero, TRUE)
             ELSE Out(change(t, t.FollowUps[i]), TRUE)

RECURSIVE rangeFollowUps(_, _, _)
rangeFollowUps(t, daysAfter, i) ==
    IF i > Len(t.FollowUps) THEN Out(Zero, FALSE)
    ELSE IF t.FollowUps[i].DaysAfter = daysAfter
         THEN IF t.Exit[1].Price = 0 THEN Out(Zero, TRUE)
              ELSE Out(change(t, t.FollowUps[i]), TRUE)
         ELSE rangeFollowUps(t, daysAfter, i + 1)

FollowUpChangePercent(t, daysAfter) ==
    IF t.Exit = <<>> THEN Out(Zero, FALSE) ELSE rangeFollowUps(t, daysAfter, 1)

\* UnrealizedResult, lines 179-182: pnl
unrealizedPnl(t, closePrice) ==
    IF t.Direction = DirectionShort
    THEN Mul(Sub(F(t.Entry.Price), F(closePrice)), F(t.Entry.Quantity))
    ELSE Mul(Sub(F(closePrice), F(t.Entry.Price)), F(t.Entry.Quantity))

UnrealizedResultAlwaysOpen(t, closePrice) ==
    Sub(unrealizedPnl(t, closePrice), F(t.Entry.Fees))

UnrealizedResult(t, closePrice) ==
    IF HasExited(t) THEN NetResult(t)
    ELSE Sub(unrealizedPnl(t, closePrice), F(t.Entry.Fees))

UnrealizedPercent(t, closePrice) ==
    LET exposure == GrossExposure(t)
    IN  IF exposure = Zero THEN Zero
        ELSE Mul(Div(UnrealizedResult(t, closePrice), exposure), F(100))

\* EffectiveRewardTarget, lines 200-204: pnl
targetPnl(t) ==
    IF t.Direction = DirectionShort
    THEN Mul(Sub(F(t.Entry.Price), F(t.Entry.Target[1])), F(t.Entry.Quantity))
    ELSE Mul(Sub(F(t.Entry.Target[1]), F(t.Entry.Price)), F(t.Entry.Quantity))

EffectiveRewardTarget(t) ==
    IF t.Entry.Target = <<>> THEN Zero
    ELSE LET risk == TotalRiskAmount(t)
         IN  IF risk = Zero THEN Zero ELSE Div(targetPnl(t), risk)

\* The metrics by name; the two pnl are the local variables of
\* UnrealizedResult and EffectiveRewardTarget once they are set.
Apply(metric, arg, t) ==
    CASE metric = "GrossExposure" -> Out(GrossExposure(t), FALSE)
      [] metric = "RiskPerShare" -> Out(RiskPerShare(t), FALSE)
      [] metric = "TotalRiskAmount" -> Out(TotalRiskAmount(t), FALSE)
      [] metric = "HasExited" -> Out(Zero, HasExited(t))
      [] metric = "GrossResult" -> Out(GrossResult(t), FALSE)
      [] metric = "NetResult" -> Out(NetResult(t), FALSE)
      [] metric = "ResultPercent" -> Out(ResultPercent(t), FALSE)
      [] metric = "RMultiple" -> Out(RMultiple(t), FALSE)
      [] metric = "FollowUpChangePercent" -> FollowUpChangePercent(t, arg)
      [] metric = "UnrealizedResult.pnl" -> Out(unrealizedPnl(t, arg), FALSE)
      [] metric = "UnrealizedResult" -> Out(UnrealizedResult(t, arg), FALSE)
      [] metric = "UnrealizedPercent" -> Out(UnrealizedPercent(t, arg), FALSE)
      [] metric = "EffectiveRewardTarget.pnl" -> Out(targetPnl(t), FALSE)
      [] metric = "EffectiveRewardTarget" -> Out(EffectiveRewardTarget(t), FALSE)

\* The state is the trade a page shows (ret.tr) and the metric it computed
\* last (ret.list): its name, its argument, what it returned and, after the
\* direction of the trade was switched, what it had returned before.
InitMetrics ==
    /\ clock = 1
    /\ trades = <<>>
    /\ exits = [a \in Addrs |-> ZeroExit]
    /\ floats = [a \in Addrs |-> 0]
    /\ fuArrs = [a \in Addrs |-> <<>>]
    /\ tagArrs = [a \in Addrs |-> <<>>]
    /\ pc = [p \in Procs |-> "idle"]
    /\ loc = [p \in Procs |-> NoLocal]
    /\ \E t \in MetricTrades : ret = Ret(ErrNil, <<t>>, <<>>)
    /\ deleted = {}

Computed(metric, arg, t, was) ==
    [metric |-> metric, arg |-> arg, out |-> Apply(metric, arg, t), was |-> was]

Returns(metric, arg) ==
    /\ ret' = [ret EXCEPT !.list = <<Computed(metric, arg, ret.tr[1], <<>>)>>]
    /\ UNCHANGED <<clock, trades, exits, floats, fuArrs, tagArrs, pc, loc, deleted>>

CallGrossExposure ==
    /\ ret.tr # <<>>
    /\ Returns("GrossExposure", 0)
CallRiskPerShare ==
    /\ ret.tr # <<>>
    /\ Returns("RiskPerShare", 0)
CallTotalRiskAmount ==
    /\ ret.tr # <<>>
    /\ Returns("TotalRiskAmount", 0)
CallHasExited ==
    /\ ret.tr # <<>>
    /\ Returns("HasExited", 0)
CallGrossResult ==
    /\ ret.tr # <<>>
    /\ Returns("GrossResult", 0)
CallNetResult ==
    /\ ret.tr # <<>>
    /\ Returns("NetResult", 0)
CallResultPercent ==
    /\ ret.tr # <<>>
    /\ Returns("ResultPercent", 0)
CallRMultiple ==
    /\ ret.tr # <<>>
    /\ Returns("RMultiple", 0)
CallFollowUpChangePercent(daysAfter) ==
    /\ ret.tr # <<>>
    /\ Returns("FollowUpChangePercent", daysAfter)
CallUnrealizedResult(closePrice) ==
    /\ ret.tr # <<>>
    /\ Returns("UnrealizedResult", closePrice)
CallUnrealizedPercent(closePrice) ==
    /\ ret.tr # <<>>
    /\ Returns("UnrealizedPercent", closePrice)
CallEffectiveRewardTarget ==
    /\ ret.tr # <<>>
    /\ Returns("EffectiveRewardTarget", 0)

\* UnrealizedResult of an open trade, at line 183
UnrealizedResultPnl(closePrice) ==
    /\ ~HasExited(ret.tr[1])
    /\ Returns("UnrealizedResult.pnl", closePrice)

\* EffectiveRewardTarget of a trade with a target, at line 205
EffectiveRewardTargetPnl ==
    /\ ret.tr[1].Entry.Target # <<>>
    /\ Returns("EffectiveRewardTarget.pnl", 0)

\* The trade is edited from LONG to SHORT, nothing else changed, and the page
\* computes the same metric again.
SwitchDirection ==
    /\ ret.list # <<>>
    /\ ret.list[1].was = <<>>
    /\ ret.tr[1].Direction = DirectionLong
    /\ LET t == [ret.tr[1] EXCEPT !.Direction = DirectionShort]
       IN  ret' = [ret EXCEPT !.tr = <<t>>,
                              !.list = <<Computed(ret.list[1].metric, ret.list[1].arg, t,
                                                  <<ret.list[1].out>>)>>]
    /\ UNCHANGED <<clock, trades, exits, floats, fuArrs, tagArrs, pc, loc, deleted>>

NextMetrics ==
    \/ CallGrossExposure
    \/ CallRiskPerShare
    \/ CallTotalRiskAmount
    \/ CallHasExited
    \/ CallGrossResult
    \/ CallNetResult
    \/ CallResultPercent
    \/ CallRMultiple
    \/ \E daysAfter \in Offsets : CallFollowUpChangePercent(daysAfter)
    \/ \E closePrice \in ClosePrices : CallUnrealizedResult(closePrice)
    \/ \E closePrice \in ClosePrices : CallUnrealizedPercent(closePrice)
    \/ CallEffectiveRewardTarget
    \/ \E closePrice \in ClosePrices : UnrealizedResultPnl(closePrice)
    \/ EffectiveRewardTargetPnl
    \/ SwitchDirection

SpecMetrics == InitMetrics /\ [][NextMetrics]_vars

\* The trade and the result in a state of SpecMetrics.
shown == ret.tr[1]
last == ret.list[1]
Did(metric) == ret.list # <<>> /\ last.metric = metric

\* ------------------------------------------------------------------ index
\* Comparisons of float64: all false when an operand is not a number.
Lt(x, y) == Finite(x) /\ Finite(y) /\ x.num * y.den < y.num * x.den
Le(x, y) == Finite(x) /\ Finite(y) /\ x.num * y.den <= y.num * x.den
Gt(x, y) == Lt(y, x)
Ge(x, y) == Le(y, x)

MaxTrades == 2

StatusOpen == <<"o", "p", "e", "n">>
StatusClosed == <<"c", "l", "o", "s", "e", "d">>
StatusWins == <<"w", "i", "n", "s">>
StatusLosses == <<"l", "o", "s", "s", "e", "s">>

\* string(tr.Direction)
DirectionString(d) ==
    IF d = DirectionLong THEN <<"L", "O", "N", "G">>
    ELSE IF d = DirectionShort THEN <<"S", "H", "O", "R", "T">>
    ELSE <<>>

ToUpperRune(c) ==
    CASE c = "a" -> "A" [] c = "b" -> "B" [] c = "l" -> "L" [] c = "o" -> "O"
      [] c = "n" -> "N" [] c = "g" -> "G" [] OTHER -> c

ToUpper(s) == [i \in 1..Len(s) |-> ToUpperRune(s[i])]

\* strings.Contains
Contains(s, substr) ==
    \E i \in 0..(Len(s) - Len(substr)) : SubSeq(s, i + 1, i + Len(substr)) = substr

\* The trades of the index page: long and short, open or closed at a loss,
\* at no result or at a gain, the entry price a number or NaN, the stop-loss
\* below the entry price, with or without a tag.
IndexTrade(dir, price, exit, tags) ==
    [Instrument |-> <<"A">>, Market |-> <<"b">>, Setup |-> <<>>, Direction |-> dir,
     Entry |-> [Date |-> 1, Price |-> price, Quantity |-> 1, Fees |-> 1,
                StopLoss |-> <<0>>, Target |-> <<>>, RiskPerShare |-> <<>>],
     Exit |-> exit, FollowUps |-> <<>>, Tags |-> tags]

IndexExits ==
    {<<>>, <<[Date |-> 0, Price |-> 0, Fees |-> 0]>>, <<[Date |-> 2, Price |-> 2, Fees |-> 0]>>,
     <<[Date |-> 3, Price |-> 3, Fees |-> 0]>>}

IndexTrades ==
    {IndexTrade(dir, price, exit, tags) :
        dir \in {DirectionLong, DirectionShort},
        price \in {1, NaN}, exit \in IndexExits, tags \in {<<>>, <<<<"a">>>>}}

TradeLists == UNION {[1..n -> IndexTrades] : n \in 0..MaxTrades}

\* The query strings of GET /.
Queries ==
    [instrument : {<<>>, <<" ", "b">>, <<"A", "A">>},
     direction : {<<>>, <<"l", "o", "n", "g">>, <<"S", "H", "O", "R", "T">>, <<"a">>},
     status : {<<>>, StatusOpen, <<" ">> \o StatusClosed, StatusWins, StatusLosses, <<"a">>},
     tag : {<<>>, <<"A", " ">>}]

indexFilters(instrument, direction, status, tag) ==
    [Instrument |-> instrument, Direction |-> direction, Status |-> status, Tag |-> tag]

Active(f) == f.Instrument # <<>> \/ f.Direction # <<>> \/ f.Status # <<>> \/ f.Tag # <<>>

parseIndexFilters(q) ==
    LET direction == ToUpper(TrimSpace(q.direction))
        status == ToLower(TrimSpace(q.status))
        tag == ToLower(TrimSpace(q.tag))
    IN  indexFilters(
            TrimSpace(q.instrument),
            IF direction # DirectionString(DirectionLong)
                /\ direction # DirectionString(DirectionShort) THEN <<>> ELSE direction,
            IF status \in {StatusOpen, StatusClosed, StatusWins, StatusLosses}
            THEN status ELSE <<>>,
            IF tag # <<>> THEN normalizeTag(tag) ELSE tag)

\* applyIndexFilters, lines 428-467: whether the loop appends tr
statusKeeps(tr, status) ==
    CASE status = StatusOpen -> ~HasExited(tr)
      [] status = StatusClosed -> HasExited(tr)
      [] status = StatusWins -> ~(~HasExited(tr) \/ Le(NetResult(tr), Zero))
      [] status = StatusLosses -> ~(~HasExited(tr) \/ Ge(NetResult(tr), Zero))
      [] OTHER -> TRUE

keeps(tr, filters) ==
    LET needle == ToLower(filters.Instrument)
    IN  /\ needle # <<>> =>
                \/ Contains(ToLower(tr.Instrument), needle)
                \/ Contains(ToLower(tr.Market), needle)
                \/ Contains(ToLower(tr.Setup), needle)
        /\ ~(filters.Direction # <<>> /\ DirectionString(tr.Direction) # filters.Direction)
        /\ statusKeeps(tr, filters.Status)
        /\ filters.Tag # <<>> =>
                \E i \in DOMAIN tr.Tags : normalizeTag(tr.Tags[i]) = filters.Tag

applyIndexFilters(list, filters) ==
    IF ~Active(filters) THEN list ELSE SelectSeq(list, LAMBDA tr : keeps(tr, filters))

\* holdDays, in days
holdDays(tr, now) ==
    IF tr.Entry.Date = ZeroTime THEN Out(Zero, FALSE)
    ELSE IF HasExited(tr) /\ tr.Exit[1].Date = ZeroTime THEN Out(Zero, FALSE)
    ELSE LET end == IF HasExited(tr) THEN tr.Exit[1].Date ELSE now
         IN  IF end < tr.Entry.Date THEN Out(Zero, FALSE)
             ELSE Out(F(end - tr.Entry.Date), TRUE)

dashboardMetrics ==
    [Total |-> 0, Closed |-> 0, Open |-> 0, WinRate |-> Zero, AvgR |-> Zero,
     AvgHoldDays |-> Zero, AvgReturnPct |-> Zero, TotalNet |-> Zero, OpenRisk |-> Zero]

\* summarizeTrades, lines 481-489: the counters of the loop
ZeroCounts ==
    [winCount |-> 0, rTotal |-> Zero, rSamples |-> 0, holdTotal |-> Zero, holdSamples |-> 0,
     returnTotal |-> Zero, returnSamples |-> 0]

\* summarizeTrades, lines 491-513: the loop, from the i-th trade on
RECURSIVE rangeTrades(_, _, _, _, _)
rangeTrades(list, now, i, metrics, c) ==
    IF i > Len(list) THEN [metrics |-> metrics, c |-> c]
    ELSE LET tr == list[i]
             net == NetResult(tr)
             hold == holdDays(tr, now)
             risky == Gt(TotalRiskAmount(tr), Zero)
             m == [metrics EXCEPT !.TotalNet = Add(@, net)]
         IN  IF HasExited(tr)
             THEN rangeTrades(list, now, i + 1,
                    [m EXCEPT !.Closed = @ + 1],
                    [c EXCEPT !.winCount = IF Gt(net, Zero) THEN @ + 1 ELSE @,
                              !.rTotal = IF risky THEN Add(@, RMultiple(tr)) ELSE @,
                              !.rSamples = IF risky THEN @ + 1 ELSE @,
                              !.holdTotal = IF hold.found THEN Add(@, hold.value) ELSE @,
                              !.holdSamples = IF hold.found THEN @ + 1 ELSE @,
                              !.returnTotal = Add(@, ResultPercent(tr)),
                              !.returnSamples = @ + 1])
             ELSE rangeTrades(list, now, i + 1,
                    [m EXCEPT !.Open = @ + 1, !.OpenRisk = Add(@, TotalRiskAmount(tr))],
                    c)

WinRateOfAll(winCount, closed) == Mul(Div(F(winCount), F(closed + 1)), F(100))
WinRate(winCount, closed) == Mul(Div(F(winCount), F(closed)), F(100))

summarizeTrades(list, now) ==
    IF Len(list) = 0 THEN dashboardMetrics
    ELSE LET r == rangeTrades(list, now, 1, [dashboardMetrics EXCEPT !.Total = Len(list)],
                              ZeroCounts)
             m == r.metrics
             c == r.c
         IN  [m EXCEPT
                !.WinRate = IF m.Closed > 0 THEN WinRate(c.winCount, m.Closed) ELSE @,
                !.AvgR = IF c.rSamples > 0 THEN Div(c.rTotal, F(c.rSamples)) ELSE @,
                !.AvgHoldDays =
                    IF c.holdSamples > 0 THEN Div(c.holdTotal, F(c.holdSamples)) ELSE @,
                !.AvgReturnPct =
                    IF c.returnSamples > 0 THEN Div(c.returnTotal, F(c.returnSamples)) ELSE @]

\* The state is the list svc.List returned (ret.list) and what the index page
\* made of it (ret.tr): the filters, the trades it shows and their summary.
InitIndex ==
    /\ clock = 1
    /\ trades = <<>>
    /\ exits = [a \in Addrs |-> ZeroExit]
    /\ floats = [a \in Addrs |-> 0]
    /\ fuArrs = [a \in Addrs |-> <<>>]
    /\ tagArrs = [a \in Addrs |-> <<>>]
    /\ pc = [p \in Procs |-> "idle"]
    /\ loc = [p \in Procs |-> NoLocal]
    /\ \E list \in TradeLists : ret = Ret(ErrNil, <<>>, list)
    /\ deleted = {}

\* handleIndex, lines 60-61 and 89
HandleIndex(q) ==
    /\ ret.tr = <<>>
    /\ LET filters == parseIndexFilters(q)
           filtered == applyIndexFilters(ret.list, filters)
       IN  ret' = [ret EXCEPT !.tr = <<[Filters |-> filters, Trades |-> filtered,
                                        Metrics |-> summarizeTrades(filtered, clock)]>>]
    /\ UNCHANGED <<clock, trades, exits, floats, fuArrs, tagArrs, pc, loc, deleted>>

NextIndex == \E q \in Queries : HandleIndex(q)

SpecIndex == InitIndex /\ [][NextIndex]_vars

\* The page in a state of SpecIndex.
page == ret.tr[1]

\* ------------------------------------------------------------------- claims
\* The caller of the repository writes to the trade it holds.
Mutates == MutateField \/ MutateExit \/ MutateStopLoss \/ MutateFollowUp \/ MutateTag

\* C1: what a caller does to a trade it got from GetByID or List, or passed to
\* Create or Update, leaves every stored trade as it was, nested exit,
\* follow-ups, tags and optional numbers included.
C1_IndependentCopies == [][Mutates => DeepStoreNext = DeepStore]_vars

\* C4: every Create of a trade without identifier gives it a non-empty
\* identifier that no stored trade has, so the store grows by one.
C4_UniqueIDs ==
    [][(\E created \in Times, kind \in Kinds : Create(EmptyID, created, kind))
        => /\ ret'.tr[1].ID # EmptyID
           /\ ret'.tr[1].ID \notin DOMAIN trades
           /\ Cardinality(DOMAIN trades') = Cardinality(DOMAIN trades) + 1]_vars

\* C9: Delete and GetByID of an identifier that is not stored fail with
\* not-found and leave the store as it is; an identifier that was deleted and
\* not created again makes GetByID, Update and Delete fail with not-found and
\* is in no listing.
C9_DeletedStaysGone ==
    [][/\ \A id \in IDs \ DOMAIN trades :
            (Delete(id) \/ GetByID(id)) => (ret'.err = ErrNotFound /\ DeepStoreNext = DeepStore)
       /\ \A id \in deleted :
            (Delete(id) \/ GetByID(id) \/ \E created \in Times : UpdateBuilt(id, created))
                => (ret'.err = ErrNotFound /\ DeepStoreNext = DeepStore)
       /\ (UpdateHeld /\ ret.tr[1].ID \in deleted)
                => (ret'.err = ErrNotFound /\ DeepStoreNext = DeepStore)
       /\ List => \A i \in DOMAIN ret'.list : ret'.list[i] \notin deleted]_vars

\* An Update with a trade that was deleted has just failed, another trade
\* being stored.
C9_Witness ==
    /\ ret.err = ErrNotFound
    /\ ret.tr # <<>>
    /\ ret.tr[1].ID \in deleted
    /\ DOMAIN trades # {}

\* C3: a successful Service.Update leaves the stored CreatedAt as it was and
\* makes the stored UpdatedAt strictly later.
C3_UpdateKeepsCreatedAt ==
    [][\A p \in Procs :
        (UpdateRepo(p) /\ loc[p].op = "Service.Update" /\ ret'.err = ErrNil)
            => /\ trades'[loc[p].id].CreatedAt = trades[loc[p].id].CreatedAt
               /\ trades'[loc[p].id].UpdatedAt > trades[loc[p].id].UpdatedAt]_vars

\* C5: when Service.Create has returned, the caller's trade and the stored one
\* have CreatedAt and UpdatedAt set, and equal.
C5_CreatedEqualsUpdated ==
    [][\A p \in Procs :
        (CreateRepo(p) /\ loc[p].op = "Service.Create")
            => \A t \in {ret'.tr[1], trades'[ret'.tr[1].ID]} :
                /\ t.CreatedAt # ZeroTime
                /\ t.UpdatedAt # ZeroTime
                /\ t.CreatedAt = t.UpdatedAt]_vars

\* C8: an Update with a trade whose identifier is empty or not stored fails
\* with not-found and leaves the store as it is, called through Service.Update
\* (or Service.AddFollowUp) as well.
C8_UpdateNotFound ==
    [][\A p \in Procs :
        (UpdateRepo(p) /\ (loc[p].tr[1].ID = EmptyID \/ loc[p].tr[1].ID \notin DOMAIN trades))
            => (ret'.err = ErrNotFound /\ DeepStoreNext = DeepStore)]_vars

\* A Service.Update of an identifier that is not stored has just failed,
\* another trade being stored.
C8_Witness ==
    /\ ret.err = ErrNotFound
    /\ ret.tr # <<>>
    /\ ret.tr[1].ID # EmptyID
    /\ ret.tr[1].ID \notin DOMAIN trades
    /\ DOMAIN trades # {}

\* C10: Service.List returns every stored trade once, newest CreatedAt first,
\* and in the order of the List before it when the store has not changed.
C10_ListStable ==
    [][ServiceList
        => /\ Len(ret'.list) = Cardinality(DOMAIN trades)
           /\ SeqRange(ret'.list) = DOMAIN trades
           /\ \A i, j \in DOMAIN ret'.list :
                i < j => trades[ret'.list[i]].CreatedAt >= trades[ret'.list[j]].CreatedAt
           /\ (ret.list # <<>> /\ SeqRange(ret.list) = DOMAIN trades) => ret'.list = ret.list]_vars

IsPrefix(s, t) == Len(s) <= Len(t) /\ SubSeq(t, 1, Len(s)) = s

\* The requests that write a trade back with the follow-ups they read.
FollowUpWriters == {"AddFollowUp", "handleUpdateTrade"}

\* The stored follow-ups of trade id stay, in their order, through the write of
\* request p, and an AddFollowUp puts its own after them.
KeepsFollowUps(p) ==
    LET before == FollowUpsOf(trades[loc[p].id], fuArrs)
        after == FollowUpsOf(trades'[loc[p].id], fuArrs')
    IN  /\ IsPrefix(before, after)
        /\ loc[p].op = "AddFollowUp" => after = before \o loc[p].fu

Normalized(tag) ==
    /\ tag # <<>>
    /\ ~IsSpace(tag[1])
    /\ ~IsSpace(tag[Len(tag)])
    /\ \A i \in DOMAIN tag : ~IsUpper(tag[i])

\* C6: no tag of a stored trade is empty, has leading or trailing whitespace or
\* an upper-case character.
C6_TagsNormalized ==
    \A id \in DOMAIN trades :
        \A tag \in SeqRange(TagsOf(trades[id], tagArrs)) : Normalized(tag)

\* A trade is stored with one tag left of the two it was given.
C6_Witness ==
    \E id \in DOMAIN trades : trades[id].Tags.len = 1 /\ trades[id].Tags.cap = 2

\* The tags of a list in the order of their first occurrence.
RECURSIVE FirstOccurrences(_, _)
FirstOccurrences(tags, seen) ==
    IF tags = <<>> THEN <<>>
    ELSE IF Head(tags) \in seen THEN FirstOccurrences(Tail(tags), seen)
         ELSE <<Head(tags)>> \o FirstOccurrences(Tail(tags), seen \cup {Head(tags)})

\* C7: after Service.Create or Service.Update the stored tags are the
\* normalized tags of the input without duplicates, in the order of their
\* first occurrence.
C7_NoDuplicateTags ==
    [][\A p \in Procs :
        ((CreateRepo(p) \/ UpdateRepo(p)) /\ CallerKeeps(loc[p].op) /\ ret'.err = ErrNil)
            => TagsOf(trades'[ret'.tr[1].ID], tagArrs') =
                    FirstOccurrences(TagsOf(loc[p].tr[1], tagArrs), {})]_vars

\* C11: AddFollowUp on a stored trade stamps the follow-up with the current
\* time whatever LoggedAt the caller gave it, keeps its days-after and price,
\* and stores it as the one new, last follow-up of the trade, with an UpdatedAt
\* not earlier than that LoggedAt; on an identifier that is not stored it fails
\* with not-found and leaves the store as it is.
C11_AddFollowUpAppendsOne ==
    [][\A p \in Procs :
        /\ AfAppend(p)
            => /\ loc'[p].fu = <<FollowUp(loc[p].fu[1].DaysAfter, loc[p].fu[1].Price, clock)>>
               /\ FollowUpsOf(loc'[p].tr[1], fuArrs') =
                    FollowUpsOf(loc[p].tr[1], fuArrs) \o loc'[p].fu
        /\ (UpdateRepo(p) /\ loc[p].op = "AddFollowUp" /\ ret'.err = ErrNil)
            => /\ FollowUpsOf(trades'[loc[p].id], fuArrs') =
                    FollowUpsOf(trades[loc[p].id], fuArrs) \o loc[p].fu
               /\ trades'[loc[p].id].UpdatedAt >= loc[p].fu[1].LoggedAt
        /\ \A id \in IDs \ DOMAIN trades, logged \in Times :
            AddFollowUp(p, id, logged)
                => (ret'.err = ErrNotFound /\ pc'[p] = "idle" /\ DeepStoreNext = DeepStore)]_vars

\* A trade has a second follow-up, logged and stored when the clock had moved
\* on.
C11_Witness ==
    \E id \in DOMAIN trades :
        /\ trades[id].FollowUps.len = 2
        /\ FollowUpsOf(trades[id], fuArrs)[2].LoggedAt = MaxClock
        /\ FollowUpsOf(trades[id], fuArrs)[1].LoggedAt < MaxClock
        /\ trades[id].UpdatedAt = MaxClock

\* C12: an Update of an identifier that is stored at the moment of the write
\* succeeds and makes the stored trade the caller's trade with UpdatedAt
\* refreshed, whether or not the stored trade changed after the caller read it.
C12_LastWriterWins ==
    [][\A p \in Procs :
        (UpdateRepo(p) /\ loc[p].tr[1].ID \in DOMAIN trades \ {EmptyID})
            => /\ ret'.err = ErrNil
               /\ Deep(trades'[loc[p].tr[1].ID], exits', floats', fuArrs', tagArrs') =
                    [Deep(loc[p].tr[1], exits, floats, fuArrs, tagArrs)
                        EXCEPT !.UpdatedAt = clock]]_vars

\* The trade <<1>> is stored with the single follow-up of a request that read
\* it before the other request's follow-up was stored: its one-element array
\* is the second cell, allocated while the other request's array, since
\* dropped, was in use.
C12_Witness ==
    /\ <<1>> \in DOMAIN trades
    /\ trades[<<1>>].FollowUps = Slice(2, 1, 1)
    /\ fuArrs[1] = <<>>

\* C13: no repository method blocks for ever.  Whatever the callers of Create,
\* Update, Delete, GetByID and List do, under fair scheduling each call gets
\* the lock (readers together, a writer alone), returns, and has released the
\* lock when it has returned, on the not-found paths as on the others.
LockDiscipline ==
    \A p, q \in Procs :
        (p # q /\ pc[p] = "w_held") => pc[q] \notin {"w_held", "r_held"}

C13_NoCallBlocksForever ==
    /\ []LockDiscipline
    /\ \A p \in Procs : (pc[p] # "idle") ~> (pc[p] = "idle")

\* A writer on its not-found path holds the lock while another call waits
\* for it.
C13_Witness ==
    \E p, q \in Procs :
        /\ pc[p] = "w_held"
        /\ loc[p].op \in {"Update", "Delete"}
        /\ loc[p].id \notin DOMAIN trades
        /\ pc[q] \in {"r_wait", "w_wait"}

\* C14: NetResult is -entry.fees and GrossResult is 0 for a trade without an
\* exit; with an exit NetResult is GrossResult - entry.fees - exit.fees, and
\* GrossResult of a LONG trade is (exit.price - entry.price) * entry.quantity.
C14_NetAndGrossResult ==
    /\ Did("NetResult") =>
        last.out.value =
            IF shown.Exit = <<>> THEN F(0 - shown.Entry.Fees)
            ELSE Sub(Sub(GrossResult(shown), F(shown.Entry.Fees)), F(shown.Exit[1].Fees))
    /\ Did("GrossResult") =>
        /\ shown.Exit = <<>> => last.out.value = Zero
        /\ (shown.Exit # <<>> /\ shown.Direction = DirectionLong) =>
            last.out.value =
                F((shown.Exit[1].Price - shown.Entry.Price) * shown.Entry.Quantity)

\* NetResult of a closed LONG trade with a loss and fees on both sides.
C14_Witness ==
    /\ Did("NetResult")
    /\ shown.Direction = DirectionLong
    /\ shown.Exit # <<>>
    /\ shown.Entry.Fees # 0
    /\ GrossResult(shown).num < 0
    /\ last.out.value.num < GrossResult(shown).num - shown.Entry.Fees

\* C15: RMultiple is NetResult / TotalRiskAmount when TotalRiskAmount is not
\* zero and 0 when it is, and TotalRiskAmount is RiskPerShare * entry.quantity.
C15_RMultiple ==
    /\ Did("TotalRiskAmount") =>
        last.out.value = Mul(RiskPerShare(shown), F(shown.Entry.Quantity))
    /\ Did("RMultiple") =>
        LET risk == Mul(RiskPerShare(shown), F(shown.Entry.Quantity))
        IN  last.out.value = IF risk # Zero THEN Div(NetResult(shown), risk) ELSE Zero

\* RMultiple of a closed trade with fees and a risk that is not zero.
C15_Witness ==
    /\ Did("RMultiple")
    /\ shown.Exit # <<>>
    /\ TotalRiskAmount(shown) # Zero
    /\ last.out.value # Zero
    /\ last.out.value # Div(GrossResult(shown), TotalRiskAmount(shown))

\* C16: switching a trade from LONG to SHORT negates, and does nothing else
\* to, GrossResult, the pnl of UnrealizedResult of an open trade (and so
\* UnrealizedResult before fees), FollowUpChangePercent and the pnl of
\* EffectiveRewardTarget.
C16_DirectionNegates ==
    (ret.list # <<>> /\ last.was # <<>>) =>
        /\ last.metric \in {"GrossResult", "UnrealizedResult.pnl",
                            "FollowUpChangePercent", "EffectiveRewardTarget.pnl"}
            => last.out = [last.was[1] EXCEPT !.value = Neg(@)]
        /\ (last.metric = "UnrealizedResult" /\ shown.Exit = <<>>)
            => Add(last.out.value, F(shown.Entry.Fees)) =
                 Neg(Add(last.was[1].value, F(shown.Entry.Fees)))

\* A closed trade with a gross result that is not zero was switched.
C16_Witness ==
    /\ Did("GrossResult")
    /\ last.was # <<>>
    /\ shown.Direction = DirectionShort
    /\ last.out.value # Zero

\* C17: FollowUpChangePercent(d) is (0, false) for a trade without an exit or
\* without a follow-up d days after; otherwise it is found, computed from the
\* first follow-up in stored order that is d days after, and 0 when
\* exit.price is 0.
C17_FollowUpChangePercent ==
    Did("FollowUpChangePercent") =>
        LET matches == {i \in DOMAIN shown.FollowUps :
                            shown.FollowUps[i].DaysAfter = last.arg}
        IN  IF shown.Exit = <<>> \/ matches = {}
            THEN last.out = Out(Zero, FALSE)
            ELSE LET f == shown.FollowUps[CHOOSE i \in matches : \A j \in matches : i <= j]
                     x == shown.Exit[1].Price
                 IN  /\ last.out.found
                     /\ x = 0 => last.out.value = Zero
                     /\ (x # 0 /\ shown.Direction = DirectionLong)
                            => last.out.value = Float((f.Price - x) * 100, x)
                     /\ (x # 0 /\ shown.Direction = DirectionShort)
                            => last.out.value = Float((x - f.Price) * 100, x)

\* Two follow-ups seven days after with different prices: the first one
\* (above the exit price) counts.
C17_Witness ==
    /\ Did("FollowUpChangePercent")
    /\ shown.Direction = DirectionLong
    /\ Len(shown.FollowUps) = 2
    /\ shown.FollowUps[1].DaysAfter = last.arg
    /\ shown.FollowUps[2].DaysAfter = last.arg
    /\ shown.FollowUps[2].Price < shown.FollowUps[1].Price
    /\ last.out.found
    /\ last.out.value.num > 0

\* C18: RiskPerShare is the override when one is set, whatever the stop-loss
\* and also when the override is zero; without an override and with a
\* stop-loss it is entry.price - stop for LONG and stop - entry.price for
\* SHORT; with neither it is 0.
C18_RiskPerShare ==
    Did("RiskPerShare") =>
        LET e == shown.Entry
        IN  /\ e.RiskPerShare # <<>> => last.out.value = F(e.RiskPerShare[1])
            /\ (e.RiskPerShare = <<>> /\ e.StopLoss # <<>> /\ shown.Direction = DirectionLong)
                => last.out.value = F(e.Price - e.StopLoss[1])
            /\ (e.RiskPerShare = <<>> /\ e.StopLoss # <<>> /\ shown.Direction = DirectionShort)
                => last.out.value = F(e.StopLoss[1] - e.Price)
            /\ (e.RiskPerShare = <<>> /\ e.StopLoss = <<>>) => last.out.value = Zero

\* An override of zero wins over a stop-loss away from the entry price.
C18_Witness ==
    /\ Did("RiskPerShare")
    /\ shown.Entry.RiskPerShare = <<0>>
    /\ shown.Entry.StopLoss # <<>>
    /\ shown.Entry.StopLoss[1] # shown.Entry.Price
    /\ last.out.value = Zero

\* C19: every metric returns a number whatever the trade; ResultPercent and
\* UnrealizedPercent return 0 when entry.price * entry.quantity is 0, RMultiple
\* and EffectiveRewardTarget return 0 when TotalRiskAmount is 0, and
\* EffectiveRewardTarget returns 0 without a target.
C19_MetricsTotal ==
    ret.list # <<>> =>
        /\ Finite(last.out.value)
        /\ (last.metric \in {"ResultPercent", "UnrealizedPercent"}
                /\ shown.Entry.Price * shown.Entry.Quantity = 0)
            => last.out.value = Zero
        /\ (last.metric \in {"RMultiple", "EffectiveRewardTarget"}
                /\ TotalRiskAmount(shown) = Zero)
            => last.out.value = Zero
        /\ (last.metric = "EffectiveRewardTarget" /\ shown.Entry.Target = <<>>)
            => last.out.value = Zero

\* ResultPercent of a trade with a net result and no exposure.
C19_Witness ==
    /\ Did("ResultPercent")
    /\ shown.Entry.Price * shown.Entry.Quantity = 0
    /\ NetResult(shown) # Zero
    /\ last.out.value = Zero

\* C20: UnrealizedResult(closePrice) of a trade with an exit is NetResult
\* whatever closePrice is; of an open trade it is
\* (closePrice - entry.price) * entry.quantity for LONG and
\* (entry.price - closePrice) * entry.quantity for SHORT, minus entry.fees.
C20_UnrealizedResult ==
    Did("UnrealizedResult") =>
        LET e == shown.Entry
        IN  /\ shown.Exit # <<>> => last.out.value = NetResult(shown)
            /\ (shown.Exit = <<>> /\ shown.Direction = DirectionLong)
                => last.out.value = F((last.arg - e.Price) * e.Quantity - e.Fees)
            /\ (shown.Exit = <<>> /\ shown.Direction = DirectionShort)
                => last.out.value = F((e.Price - last.arg) * e.Quantity - e.Fees)

\* A closed trade whose net result is not what the close price would give.
C20_Witness ==
    /\ Did("UnrealizedResult")
    /\ shown.Exit # <<>>
    /\ last.out.value # Sub(unrealizedPnl(shown, last.arg), F(shown.Entry.Fees))

\* C21: normalize is idempotent: applied to a tag list that normalize
\* returned, it returns that list again, the same tags in the same order.
C21_NormalizeIdempotent ==
    Len(ret.list) = 2 => ret.tr[1] = ret.list[2]

\* Tags were normalized twice, and the first time changed them: a tag was
\* dropped, one was trimmed and lower-cased.
C21_Witness ==
    /\ Len(ret.list) = 2
    /\ ret.list[1] = SomeTags(<<<<" ">>, <<" ", "A">>, <<"A", " ", "B">>>>)
    /\ ret.tr[1] = SomeTags(<<<<"a">>, <<"a", " ", "b">>>>)

\* C22: maybeSeed with seeding disabled, or on a store that holds a trade,
\* leaves the store as it is (so a second run changes nothing), and with
\* seeding enabled on an empty store it leaves exactly two trades stored.
C22_SeedOnlyOnEmpty ==
    [][\A p \in Procs :
        /\ \A enabled \in BOOLEAN :
            (MaybeSeed(p, enabled) /\ (~enabled \/ DOMAIN trades # {}))
                => (DeepStoreNext = DeepStore /\ pc'[p] = "idle")
        /\ SeedSecond(p) => Cardinality(DOMAIN trades') = 2]_vars

\* The answer of the step is 404 and the store is as before.
AnswersNotFound == Answer(ret'.err, "303") = "404" /\ DeepStoreNext = DeepStore

\* The answer of the step is 400 and the store is as before.
AnswersBadRequest == Answer(ret'.err, "303") = "400" /\ DeepStoreNext = DeepStore

\* C23 as stated: every request for an identifier that is not stored is
\* answered 404 with the store unchanged, and every request with a form that
\* fails validation is answered 400 with the store unchanged.
C23_NotFoundWhateverTheForm ==
    [][/\ \A id \in RoutedIDs \ DOMAIN trades :
            /\ HandleShowTrade(id) => AnswersNotFound
            /\ HandleEditTrade(id) => AnswersNotFound
            /\ HandleDeleteTrade(id) => AnswersNotFound
            /\ \A p \in Procs : HandleUpdateTrade(p, id) => AnswersNotFound
            /\ \A p \in Procs, valid \in BOOLEAN :
                    HandleAddFollowUp(p, id, valid) => AnswersNotFound
       /\ \A p \in Procs :
            /\ HandleCreateTrade(p, FALSE, <<>>) => AnswersBadRequest
            /\ HuBuild(p, FALSE, <<>>) => AnswersBadRequest
            /\ \A id \in RoutedIDs : HandleAddFollowUp(p, id, FALSE) => AnswersBadRequest]_vars

\* C23: a request for an identifier that is not stored is answered 404 with
\* the store unchanged (show, edit, update, delete, a follow-up whose form is
\* valid, and the write of an update or follow-up whose trade was deleted
\* meanwhile); a form that fails validation is answered 400 with the store
\* unchanged (create, a follow-up for any identifier, an update of a stored
\* trade).  Of the two, the follow-up handler looks at the form first and the
\* update handler at the identifier first.
C23_NotFoundAndBadRequest ==
    [][/\ \A id \in RoutedIDs \ DOMAIN trades :
            /\ HandleShowTrade(id) => AnswersNotFound
            /\ HandleEditTrade(id) => AnswersNotFound
            /\ HandleDeleteTrade(id) => AnswersNotFound
            /\ \A p \in Procs : HandleUpdateTrade(p, id) => AnswersNotFound
            /\ \A p \in Procs : HandleAddFollowUp(p, id, TRUE) => AnswersNotFound
       /\ \A p \in Procs :
            /\ (UpdateRepo(p) /\ loc[p].id \notin DOMAIN trades) => AnswersNotFound
            /\ HandleCreateTrade(p, FALSE, <<>>) => AnswersBadRequest
            /\ HuBuild(p, FALSE, <<>>) => AnswersBadRequest
            /\ \A id \in RoutedIDs : HandleAddFollowUp(p, id, FALSE) => AnswersBadRequest]_vars

\* A request was answered not-found for a trade that had been stored and was
\* deleted, while another request still holds its copy of it.
C23_Witness ==
    /\ ret.err = ErrNotFound
    /\ \E id \in deleted : id \notin DOMAIN trades
    /\ \E p \in Procs : pc[p] = "update_repo" /\ loc[p].id \notin DOMAIN trades

\* C24 as stated: when a Delete of the trade succeeded between the read and
\* the write of an AddFollowUp or web update, the write fails with not-found
\* and the identifier is not stored after it.
C24_DeletedNeverWritten ==
    [][\A p \in Procs :
        (UpdateRepo(p) /\ loc[p].op \in FollowUpWriters /\ loc[p].gone)
            => (ret'.err = ErrNotFound /\ loc[p].id \notin DOMAIN trades')]_vars

\* C24: when a Delete of the trade succeeded between the read and the write
\* of an AddFollowUp or web update and no Create has stored the identifier
\* again since, the write fails with not-found and stores nothing.
C24_DeletedNotWrittenUnlessCreatedAgain ==
    [][\A p \in Procs :
        (UpdateRepo(p) /\ loc[p].op \in FollowUpWriters /\ loc[p].gone
                /\ loc[p].id \notin DOMAIN trades)
            => (ret'.err = ErrNotFound /\ trades' = trades)]_vars

\* A write has just failed with not-found while the other request still holds
\* its copy of the trade, deleted since both read it.
C24_Witness ==
    /\ ret.err = ErrNotFound
    /\ \E p, q \in Procs :
        /\ pc[p] = "idle"
        /\ pc[q] = "update_repo"
        /\ loc[q].gone
        /\ loc[q].id \in deleted

\* C25: a Create with an identifier that is stored returns no error and puts
\* the new trade in the place of the stored one: the store has the same
\* identifiers as before and nothing of the trade stored before is kept.
C25_CreateReplaces ==
    [][\A p \in Procs :
        (CreateRepo(p) /\ loc[p].tr[1].ID \in DOMAIN trades)
            => /\ ret'.err = ErrNil
               /\ DOMAIN trades' = DOMAIN trades
               /\ trades'[loc[p].tr[1].ID] = CreateStamp(loc[p].tr[1], clock, clock)]_vars

\* The trade <<1>> is stored as Service.Create builds it, without follow-ups,
\* while a request holds the copy it read, which has a follow-up, and the
\* trade was not deleted since: a Create has replaced it.
C25_Witness ==
    /\ <<1>> \in DOMAIN trades
    /\ trades[<<1>>].Instrument = 1
    /\ trades[<<1>>].FollowUps.len = 0
    /\ \E q \in Procs :
        /\ pc[q] \in {"af_append", "hu_build"}
        /\ loc[q].id = <<1>>
        /\ loc[q].tr[1].FollowUps.len > 0
        /\ ~loc[q].gone

\* C26: with a clock that never goes backwards, a trade that Service.Create
\* stores has UpdatedAt >= CreatedAt and no follow-up logged later than its
\* UpdatedAt; here for the trades the seeding creates.
C26_StampsOrdered ==
    [][\A p \in Procs :
        (SeedFirst(p) \/ SeedSecond(p))
            => \A id \in DOMAIN trades' \ DOMAIN trades :
                /\ trades'[id].UpdatedAt >= trades'[id].CreatedAt
                /\ \A i \in 1..trades'[id].FollowUps.len :
                    fuArrs'[trades'[id].FollowUps.arr][i].LoggedAt <= trades'[id].UpdatedAt]_vars

\* What a step leaves alone when it is about the identifier a: the other
\* identifiers are stored after it exactly when they were before, with the
\* same record and the same values behind its pointers.
OthersUnchanged(a) ==
    /\ DOMAIN trades' \ {a} = DOMAIN trades \ {a}
    /\ \A b \in DOMAIN trades \ {a} : DeepStoreNext[b] = DeepStore[b]

\* C27: Create, Update, Delete and AddFollowUp for one identifier leave the
\* stored records of all other identifiers as they were, and the reads
\* (AddFollowUp's GetByID and append, Service.List) leave the whole store as
\* it was.
C27_OthersUnchanged ==
    [][/\ \A p \in Procs :
            CreateRepo(p) => OthersUnchanged(CreateStamp(loc[p].tr[1], clock, clock).ID)
       /\ \A p \in Procs : UpdateRepo(p) => OthersUnchanged(loc[p].tr[1].ID)
       /\ \A id \in IDs : Delete(id) => OthersUnchanged(id)
       /\ \A p \in Procs, id \in IDs, logged \in Times :
            AddFollowUp(p, id, logged) => DeepStoreNext = DeepStore
       /\ \A p \in Procs : AfAppend(p) => DeepStoreNext = DeepStore
       /\ ServiceList => DeepStoreNext = DeepStore]_vars

\* C27 witness: two trades are stored and a follow-up was added to one of
\* them after the other was last written.
C27_Witness ==
    /\ DOMAIN trades = {<<1>>, <<2>>}
    /\ trades[<<2>>].FollowUps.len = 1
    /\ trades[<<1>>].FollowUps.len = 0
    /\ trades[<<1>>].UpdatedAt < trades[<<2>>].UpdatedAt

\* C28: for a trade whose direction is neither LONG nor SHORT, GrossResult,
\* the pnl of UnrealizedResult, FollowUpChangePercent and the pnl of
\* EffectiveRewardTarget are computed as for LONG, while RiskPerShare from a
\* stop-loss is stop - entry.price as for SHORT (and so is the risk that
\* EffectiveRewardTarget divides by).
C28_NoDirection ==
    (ret.list # <<>> /\ shown.Direction \notin {DirectionLong, DirectionShort}) =>
        LET e == shown.Entry
            matches == {i \in DOMAIN shown.FollowUps :
                            shown.FollowUps[i].DaysAfter = last.arg}
        IN  /\ (Did("GrossResult") /\ shown.Exit # <<>>)
                => last.out.value = F((shown.Exit[1].Price - e.Price) * e.Quantity)
            /\ Did("UnrealizedResult.pnl")
                => last.out.value = F((last.arg - e.Price) * e.Quantity)
            /\ (Did("UnrealizedResult") /\ shown.Exit = <<>>)
                => last.out.value = F((last.arg - e.Price) * e.Quantity - e.Fees)
            /\ (Did("FollowUpChangePercent") /\ shown.Exit # <<>> /\ matches # {}
                    /\ shown.Exit[1].Price # 0)
                => LET f == shown.FollowUps[CHOOSE i \in matches : \A j \in matches : i <= j]
                       x == shown.Exit[1].Price
                   IN  last.out = Out(Float((f.Price - x) * 100, x), TRUE)
            /\ Did("EffectiveRewardTarget.pnl")
                => last.out.value = F((e.Target[1] - e.Price) * e.Quantity)
            /\ (Did("RiskPerShare") /\ e.RiskPerShare = <<>> /\ e.StopLoss # <<>>)
                => last.out.value = F(e.StopLoss[1] - e.Price)
            /\ (Did("EffectiveRewardTarget") /\ e.Target # <<>> /\ e.RiskPerShare = <<>>
                    /\ e.StopLoss # <<>> /\ (e.StopLoss[1] - e.Price) * e.Quantity # 0)
                => last.out.value = Float((e.Target[1] - e.Price) * e.Quantity,
                                          (e.StopLoss[1] - e.Price) * e.Quantity)

\* C28 witness: a closed trade without direction, exit below the entry: its
\* GrossResult is negative, as for LONG.
C28_Witness ==
    /\ Did("GrossResult")
    /\ shown.Direction = ""
    /\ shown.Exit # <<>>
    /\ shown.Exit[1].Price < shown.Entry.Price
    /\ shown.Entry.Quantity > 0
    /\ last.out.value.num < 0

\* out is in, some elements left out, the others in their order.
IsSubsequence(out, in) ==
    \E f \in [1..Len(out) -> 1..Len(in)] :
        /\ \A i, j \in 1..Len(out) : i < j => f[i] < f[j]
        /\ \A i \in 1..Len(out) : out[i] = in[f[i]]

OnlyStatus(f) == f.Instrument = <<>> /\ f.Direction = <<>> /\ f.Tag = <<>>

\* C29: applyIndexFilters returns an order-preserving subsequence of its
\* input, and the input when no filter is active; with the status filter
\* alone, "open" keeps exactly the trades without an exit, "closed" those with
\* an exit, "wins" the exited trades with NetResult > 0 and "losses" the exited
\* trades with NetResult < 0.
C29_StatusFilter ==
    ret.tr # <<>> =>
        /\ IsSubsequence(page.Trades, ret.list)
        /\ ~Active(page.Filters) => page.Trades = ret.list
        /\ (OnlyStatus(page.Filters) /\ page.Filters.Status = StatusOpen)
            => page.Trades = SelectSeq(ret.list, LAMBDA tr : tr.Exit = <<>>)
        /\ (OnlyStatus(page.Filters) /\ page.Filters.Status = StatusClosed)
            => page.Trades = SelectSeq(ret.list, LAMBDA tr : tr.Exit # <<>>)
        /\ (OnlyStatus(page.Filters) /\ page.Filters.Status = StatusWins)
            => page.Trades =
                SelectSeq(ret.list, LAMBDA tr : tr.Exit # <<>> /\ Gt(NetResult(tr), Zero))
        /\ (OnlyStatus(page.Filters) /\ page.Filters.Status = StatusLosses)
            => page.Trades =
                SelectSeq(ret.list, LAMBDA tr : tr.Exit # <<>> /\ Lt(NetResult(tr), Zero))

\* The sum of a sequence of numbers.
RECURSIVE Sum(_)
Sum(s) == IF s = <<>> THEN Zero ELSE Add(Head(s), Sum(Tail(s)))

\* C30: for the list summarizeTrades gets, Total = Open + Closed = the number
\* of trades, Closed = the number of trades with an exit, WinRate = 100 * (the
\* exited trades with NetResult > 0) / Closed, and 0 when Closed is 0, so
\* between 0 and 100, AvgR is the average of RMultiple over the exited trades
\* with TotalRiskAmount > 0, and OpenRisk the sum of TotalRiskAmount over the
\* trades without an exit.
C30_Summary ==
    ret.tr # <<>> =>
        LET m == page.Metrics
            closed == SelectSeq(page.Trades, LAMBDA tr : tr.Exit # <<>>)
            open == SelectSeq(page.Trades, LAMBDA tr : tr.Exit = <<>>)
            wins == SelectSeq(closed, LAMBDA tr : Gt(NetResult(tr), Zero))
            risked == SelectSeq(closed, LAMBDA tr : Gt(TotalRiskAmount(tr), Zero))
        IN  /\ m.Total = Len(page.Trades)
            /\ m.Total = m.Open + m.Closed
            /\ m.Closed = Len(closed)
            /\ m.WinRate = IF m.Closed = 0 THEN Zero ELSE Float(100 * Len(wins), m.Closed)
            /\ Ge(m.WinRate, Zero)
            /\ Le(m.WinRate, F(100))
            /\ m.AvgR = IF risked = <<>> THEN Zero
                        ELSE Div(Sum([i \in DOMAIN risked |-> RMultiple(risked[i])]),
                                 F(Len(risked)))
            /\ m.OpenRisk = Sum([i \in DOMAIN open |-> TotalRiskAmount(open[i])])

\* C30 witness: two closed trades with a risk above zero, one of them a win:
\* half of the closed trades won.
C30_Witness ==
    /\ ret.tr # <<>>
    /\ Len(page.Trades) = 2
    /\ page.Metrics.Closed = 2
    /\ page.Metrics.WinRate = F(50)
    /\ page.Metrics.AvgR # Zero

====
